---- MODULE Spec2Model ----
(***************************************************************************)
(* Model of the chat application.                                          *)
(*                                                                         *)
(*   Spec        the Socket.IO module of src/server/server.js              *)
(*               (initializeSocket) with the query helper of               *)
(*               src/server/db.js, driven by arbitrary clients             *)
(*   SpecLong    the same server with texts of more than 1000 characters   *)
(*   SpecHttp    the routes of src/server/routes/chatRoutes.js behind the  *)
(*               isAuthenticated middleware of src/server/auth.js          *)
(*   SpecSubmit  the submit listener of the page (src/js/chat.js), its     *)
(*               socket and the server                                     *)
(*   SpecPage    the page's messages container: history fetch and live     *)
(*               events                                                    *)
(*                                                                         *)
(* Strings are kept run-length encoded: a text is a sequence of runs       *)
(* [ch, n], n >= 1, adjacent runs of different characters; "ws" stands for *)
(* a whitespace character.  trim() and substring(0, 1000) are computed on  *)
(* that encoding, so the limit of 1000 characters is the program's own.    *)
(* Query strings are sequences of characters, read by parseInt.            *)
(***************************************************************************)
EXTENDS Integers, Sequences, FiniteSets, TLC

\* ---------------------------------------------------------------- bounds
NConn == 2          \* connection handles that may ever be opened
MaxEvents == 2      \* inbound event packets over the whole run
MaxClock == 1       \* the server clock runs 0..MaxClock
MaxRows == 2        \* rows of the table the HTTP routes are tried against

\* ----------------------------------------------------- program constants
MaxMessageLength == 1000       \* substring(0, 1000)
connectionLimit == 10          \* pool option connectionLimit
DefaultLimit == 50             \* parseInt(req.query.limit) || 50
MaxLimit == 100                \* Math.min(..., 100)

Conn == 1..NConn
Users == {1, 2}                \* ids of the registered users that log in

\* ------------------------------------------------------------- sequences
Last(seq) == seq[Len(seq)]

Indices(seq) == 1..Len(seq)

\* ------------------------------------------------------------------ text
Run(ch, n) == [ch |-> ch, n |-> n]

RECURSIVE TextLen(_)
TextLen(t) == IF t = <<>> THEN 0 ELSE Head(t).n + TextLen(Tail(t))

RECURSIVE TrimStart(_)
TrimStart(t) ==
    IF t = <<>> THEN <<>>
    ELSE IF Head(t).ch = "ws" THEN TrimStart(Tail(t)) ELSE t

RECURSIVE TrimEnd(_)
TrimEnd(t) ==
    IF t = <<>> THEN <<>>
    ELSE IF t[Len(t)].ch = "ws" THEN TrimEnd(SubSeq(t, 1, Len(t) - 1)) ELSE t

\* String.prototype.trim
Trim(t) == TrimEnd(TrimStart(t))

\* String.prototype.substring(0, k)
RECURSIVE Substring0(_, _)
Substring0(t, k) ==
    IF t = <<>> \/ k <= 0 THEN <<>>
    ELSE IF Head(t).n <= k
         THEN <<Head(t)>> \o Substring0(Tail(t), k - Head(t).n)
         ELSE <<Run(Head(t).ch, k)>>

\* the texts a client may put in the message field
Texts ==
    { <<>>,
      <<Run("ws", 2)>>,
      <<Run("ws", 1), Run("a", 3), Run("ws", 1)>>,
      <<Run("b", 1)>> }

\* ------------------------------------------------------------- payloads
\* the argument of a 'chat message' event as the handler sees it
NoData == [kind |-> "undefined", message |-> [kind |-> "undefined", text |-> <<>>]]
DataWith(m) == [kind |-> "object", message |-> m]
UndefinedValue == [kind |-> "undefined", text |-> <<>>]
NullValue == [kind |-> "null", text |-> <<>>]           \* a falsy non-string
NumberValue == [kind |-> "number", text |-> <<>>]       \* a truthy non-string
StringValue(t) == [kind |-> "string", text |-> t]
\* null in place of the object
NullData == [kind |-> "null", message |-> UndefinedValue]
\* a number in place of the object: reading its message property gives undefined
PrimitiveData == [kind |-> "number", message |-> UndefinedValue]

Payloads == {NoData} \cup {DataWith(StringValue(t)) : t \in Texts}

\* texts of more than 1000 characters once trimmed, and one of exactly 1000
LongTexts ==
    { <<Run("a", 1001)>>,
      <<Run("ws", 3), Run("a", 998), Run("b", 3), Run("ws", 2)>>,
      <<Run("a", 999), Run("ws", 2), Run("b", 5)>>,
      <<Run("ws", 1), Run("b", 1000), Run("ws", 1)>> }

LongPayloads == {DataWith(StringValue(t)) : t \in LongTexts}

\* payloads without a data object or without a string in the message field,
\* and one well-formed payload
MalformedPayloads ==
    {NoData, NullData, PrimitiveData,
     DataWith(UndefinedValue), DataWith(NullValue), DataWith(NumberValue)}

MixedPayloads == MalformedPayloads \cup {DataWith(StringValue(<<Run("b", 1)>>))}

\* ------------------------------------------------------------- sessions
UserName(u) == IF u = 1 THEN "alice" ELSE IF u = 2 THEN "bob" ELSE "carol"

\* the address a user registered with, as a sequence of characters
UserEmail(u) == <<SubSeq(<<"a", "b", "c">>, u, u)[1], "@", "x", ".", "y">>

\* req.session: absent, without a login, or as POST /login filled it
NoSession == [present |-> FALSE, userId |-> 0, username |-> "", email |-> <<>>]
AnonSession == [present |-> TRUE, userId |-> 0, username |-> "", email |-> <<>>]
UserSession(u) ==
    [present |-> TRUE, userId |-> u, username |-> UserName(u), email |-> UserEmail(u)]

\* what socket.request.session may be at the handshake
Sessions == {NoSession, AnonSession} \cup {UserSession(u) : u \in Users}

\* ------------------------------------------------------------- accounts
\* a field of a JSON request body: missing, or a string
Absent == [present |-> FALSE, text |-> ""]
Field(s) == [present |-> TRUE, text |-> s]
\* the same for a field whose characters matter (the e-mail address)
AbsentChars == [present |-> FALSE, text |-> <<>>]
FieldChars(s) == [present |-> TRUE, text |-> s]

\* !value: undefined and the empty string are falsy
Falsy(f) == ~f.present \/ f.text = ""
FalsyChars(f) == ~f.present \/ f.text = <<>>

\* bcrypt.hash with a salt
HashPassword(pw) == [salt |-> "s", digest |-> <<"s", pw>>]

\* variant: the password is not compared
ComparePasswordAlways(pw, hashed) == TRUE

\* bcrypt.compare, which hashes the candidate with the salt of the stored hash
ComparePassword(pw, hashed) == hashed.digest = <<hashed.salt, pw>>

UserPassword(u) == IF u = 1 THEN "secret1" ELSE IF u = 2 THEN "secret2" ELSE "secret3"

UserRow(id, name, email, pw) ==
    [id |-> id, username |-> name, email |-> email, password |-> HashPassword(pw)]

NoRow == [id |-> 0, username |-> "", email |-> <<>>, password |-> HashPassword("")]

\* the accounts of the users that hold sessions
RegisteredUsers == [u \in Users |-> UserRow(u, UserName(u), UserEmail(u), UserPassword(u))]

\* a browser without a request to /api/auth
NoAuth ==
    [pc |-> "none", route |-> "", username |-> Absent, email |-> AbsentChars,
     password |-> Absent, user |-> NoRow, status |-> 0, message |-> ""]

\* ------------------------------------------------------------ the host
\* the defaults of testConnection(retries = 10, delay = 5000)
DefaultRetries == 10
DefaultDelay == 5000

\* the retry counts and delays testConnection is called with
MaxRetries == 3
Retries == (0..MaxRetries) \cup {DefaultRetries}
Delays == {0, 1000, DefaultDelay}

\* startServer before it has called testConnection(retries, delay)
NotStarted(retries, delay) ==
    [pc |-> "start", retries |-> retries, delay |-> delay, attempt |-> 0,
     tried |-> 0, slept |-> 0, result |-> FALSE]

\* the server after testConnection() succeeded at once and server.listen ran
ServerUp ==
    [pc |-> "listening", retries |-> DefaultRetries, delay |-> DefaultDelay,
     attempt |-> 1, tried |-> 1, slept |-> 0, result |-> TRUE]

\* the pages of the public directory
PublicFiles == {"index.html", "chat.html"}

\* a browser without a page request
NoNav == [pc |-> "none", first |-> "", path |-> "", hops |-> 0, file |-> "", status |-> 0]

EventNames == {"chat message", "typing", "stop typing", "disconnect", "error"}

\* ----------------------------------------------------------------- http
\* a page that has made no request
NoUser == [id |-> 0, username |-> ""]
NoStats == [totalMessages |-> 0, totalUsers |-> 0]

NoRequest ==
    [pc |-> "none", route |-> "", session |-> NoSession,
     limit |-> [present |-> FALSE, chars |-> <<>>],
     offset |-> [present |-> FALSE, chars |-> <<>>],
     calls |-> <<>>, status |-> 0, rows |-> <<>>, user |-> NoUser, stats |-> NoStats]

VARIABLES
    state,      \* per connection: "new", "open", "rejected", "closed"
    session,    \* per connection: socket.request.session as read at the handshake
    sockUser,   \* per connection: socket.userId, socket.username
    handlers,   \* per connection: event names with a registered listener
    inbox,      \* per connection: the events delivered to its client, in order
    received,   \* per connection: the event packets received from its client, in order
    messages,   \* the rows of the messages table, in insertion order
    nextId,     \* the table's AUTO_INCREMENT counter
    queries,    \* INSERTs issued through the pool and not yet settled
    nq,         \* queries issued so far
    now,        \* the server clock
    http,       \* per browser page: its request to /api/chat and how far it got
    wire,       \* per browser page: the packets its socket sent that the server has not yet handled
    seen,       \* per browser page: how many events of its inbox its listeners have handled
    shown,      \* per browser page: the messages in its messages container, in order
    typingTimeout,  \* per browser page: whether the timer of the input listener is pending
    store,      \* per browser: the session the store holds for its chatapp.sid cookie
    broken,     \* the connections whose transport has failed without the server having noticed
    users,      \* the rows of the users table, in insertion order
    auth,       \* per browser: its request to /api/auth and how far it got
    boot,       \* startServer: the call of testConnection and what followed it
    public,     \* the names of the files in the public directory
    nav         \* per browser: its page request and how far it got

serverVars == <<state, session, sockUser, handlers, inbox, received, messages, nextId, queries, nq, now>>

\* what the browser pages add to the server's state
pageVars == <<http, wire, seen, shown, typingTimeout>>

\* the session store and the transports
\* the process start and the page requests
hostVars == <<boot, public, nav>>

\* the session store, the transports, the accounts and the host
envVars == <<store, broken, users, auth, boot, public, nav>>

vars == <<state, session, sockUser, handlers, inbox, received, messages, nextId, queries, nq, now,
          http, wire, seen, shown, typingTimeout, store, broken, users, auth,
          boot, public, nav>>

TypeOK ==
    /\ state \in [Conn -> {"new", "open", "rejected", "closed"}]
    /\ session \in [Conn -> Sessions]
    /\ \A c \in Conn : handlers[c] \subseteq EventNames
    /\ \A c \in Conn : Len(received[c]) \in 0..MaxEvents
    /\ nextId \in Nat /\ nq \in 0..MaxEvents /\ now \in 0..MaxClock
    /\ \A c \in Conn : http[c].pc \in {"none", "sent", "awaiting", "settled", "responded", "done"}
    /\ \A c \in Conn : seen[c] \in 0..Len(inbox[c])
    /\ typingTimeout \in [Conn -> BOOLEAN]
    /\ store \in [Conn -> Sessions]
    /\ broken \subseteq Conn
    /\ \A c \in Conn : auth[c].pc \in {"none", "select", "compare", "insert", "responded"}
    /\ boot.pc \in {"start", "try", "wait", "returned", "listening", "exit"}
    /\ public \subseteq PublicFiles
    /\ \A c \in Conn : nav[c].pc \in {"none", "sent", "redirected", "served", "failed"}

Init ==
    /\ state = [c \in Conn |-> "new"]
    /\ session = [c \in Conn |-> NoSession]
    /\ sockUser = [c \in Conn |-> [userId |-> 0, username |-> ""]]
    /\ handlers = [c \in Conn |-> {}]
    /\ inbox = [c \in Conn |-> <<>>]
    /\ received = [c \in Conn |-> <<>>]
    /\ messages = <<>>
    /\ nextId = 1
    /\ queries = <<>>
    /\ nq = 0
    /\ now = 0
    /\ http = [c \in Conn |-> NoRequest]
    /\ wire = [c \in Conn |-> <<>>]
    /\ seen = [c \in Conn |-> 0]
    /\ shown = [c \in Conn |-> <<>>]
    /\ typingTimeout = [c \in Conn |-> FALSE]
    /\ store = [c \in Conn |-> NoSession]
    /\ broken = {}
    /\ users = RegisteredUsers
    /\ auth = [c \in Conn |-> NoAuth]
    /\ boot = ServerUp
    /\ public = PublicFiles
    /\ nav = [c \in Conn |-> NoNav]

\* ---------------------------------------------------------------- events
JoinedEvt(name, ts) == [type |-> "user joined", username |-> name, timestamp |-> ts]
LeftEvt(name, ts) == [type |-> "user left", username |-> name, timestamp |-> ts]
WelcomeEvt(name) == [type |-> "welcome", message |-> "Welcome to the chat", username |-> name]
ErrorEvt(msg) == [type |-> "error", message |-> msg]
TypingEvt(name) == [type |-> "user typing", username |-> name]
StopTypingEvt(name) == [type |-> "user stop typing", username |-> name]
ChatEvt(q) ==
    [type |-> "chat message", id |-> q.insertId, userId |-> q.userId,
     username |-> q.username, message |-> q.message, timestamp |-> q.timestamp]

\* ------------------------------------------------------ Socket.IO emits
\* variant: a closed socket is never taken out of the namespace
OpenConnsNeverRemoved == {c \in Conn : state[c] \in {"open", "closed"}}

\* the sockets of the namespace: connected and not yet closed
OpenConns == {c \in Conn : state[c] = "open"}

\* variant: the first failed write ends the loop over the sockets
DeliverUntilFailure(box, targets, ev) ==
    [c \in Conn |-> IF c \in targets /\ \A d \in targets \cap broken : c < d
                    THEN Append(box[c], ev)
                    ELSE box[c]]

\* the packet is written to every target; a write to a failed transport is lost
Deliver(box, targets, ev) ==
    [c \in Conn |-> IF c \in targets \ broken THEN Append(box[c], ev) ELSE box[c]]

\* io.emit: every connected client, the sender included
IoEmit(box, open, ev) == Deliver(box, open, ev)

\* variant: io.emit in place of socket.broadcast.emit
BroadcastEmitAll(box, open, c, ev) == Deliver(box, open, ev)

\* variant: an event about a user is kept from that user's other sockets
BroadcastEmitOtherUsers(box, open, c, ev) ==
    Deliver(box, {d \in open \ {c} : sockUser[d].username # ev.username}, ev)

\* socket.broadcast.emit: every connected client except the socket itself
BroadcastEmit(box, open, c, ev) == Deliver(box, open \ {c}, ev)

\* variant: io.emit in place of socket.emit
SocketEmitAll(box, open, c, ev) == Deliver(box, open, ev)

\* socket.emit: that client only; a closed socket's packet is dropped
SocketEmit(box, open, c, ev) == Deliver(box, open \cap {c}, ev)

\* ------------------------------------------------------------ connection
\* variant: only the presence of a session object is checked
AuthenticatedSessionOnly(s) == s.present

\* variant: the connection handler does not check the session
AuthenticatedAlways(s) == TRUE

\* !session || !session.userId is false
Authenticated(s) == s.present /\ s.userId # 0

\* variant: no listener is registered for 'disconnect'
RegisteredHandlersNoDisconnect == {"chat message", "typing", "stop typing", "error"}

\* the listeners the connection handler registers with socket.on
RegisteredHandlers == {"chat message", "typing", "stop typing", "disconnect", "error"}

\* io.on('connection'): the socket is already in the namespace when it runs
Connect(c, s) ==
    /\ state[c] = "new"
    /\ \A d \in Conn : d < c => state[d] # "new"     \* handles are taken in order
    /\ session' = [session EXCEPT ![c] = s]
    /\ IF ~Authenticated(s)
       THEN \* socket.disconnect(true); return
            /\ state' = [state EXCEPT ![c] = "rejected"]
            /\ UNCHANGED <<sockUser, handlers, inbox>>
       ELSE LET open == OpenConns \cup {c}
                name == s.username
                box1 == BroadcastEmit(inbox, open, c, JoinedEvt(name, now))
                box2 == SocketEmit(box1, open, c, WelcomeEvt(name))
            IN  /\ state' = [state EXCEPT ![c] = "open"]
                /\ sockUser' = [sockUser EXCEPT ![c] =
                                   [userId |-> s.userId, username |-> s.username]]
                /\ inbox' = box2
                /\ handlers' = [handlers EXCEPT ![c] = RegisteredHandlers]
    /\ UNCHANGED <<received, messages, nextId, queries, nq, now>>

\* ------------------------------------------------------- inbound events
Packet(ev, data) == [ev |-> ev, data |-> data]

RECURSIVE TotalReceived(_)
TotalReceived(S) ==
    IF S = {} THEN 0
    ELSE LET c == CHOOSE x \in S : TRUE IN Len(received[c]) + TotalReceived(S \ {c})

\* the run takes at most MaxEvents inbound packets
MayReceive == TotalReceived(Conn) < MaxEvents

Receive(c, ev, data) == received' = [received EXCEPT ![c] = Append(@, Packet(ev, data))]

\* variant: the listeners of a closed socket still run
ListeningAlways(c, ev) == ev \in handlers[c]

\* a packet of a connected socket reaches the listener registered for it
Listening(c, ev) == state[c] = "open" /\ ev \in handlers[c]

\* variant: the message is converted with String() before it is looked at
ValidateCoerced(data) ==
    IF data.kind \in {"undefined", "null"} THEN "throw"
    ELSE IF data.message.kind \in {"undefined", "null"} THEN "empty"
    ELSE IF data.message.kind # "string" THEN "ok"
    ELSE IF data.message.text = <<>> THEN "empty"
    ELSE IF Trim(data.message.text) = <<>> THEN "empty"
    ELSE "ok"

\* variant: the check for whitespace-only text is missing
ValidateNoTrim(data) ==
    IF data.kind \in {"undefined", "null"} THEN "throw"
    ELSE IF data.message.kind \in {"undefined", "null"} THEN "empty"
    ELSE IF data.message.kind # "string" THEN "throw"
    ELSE IF data.message.text = <<>> THEN "empty"
    ELSE "ok"

\* the synchronous part of the 'chat message' handler up to the INSERT:
\* "throw" (TypeError, caught), "empty" (validation error) or "ok"
Validate(data) ==
    IF data.kind \in {"undefined", "null"} THEN "throw"       \* const { message } = undefined
    ELSE IF data.message.kind \in {"undefined", "null"} THEN "empty"     \* !message
    ELSE IF data.message.kind # "string" THEN "throw"         \* message.trim is not a function
    ELSE IF data.message.text = <<>> THEN "empty"             \* !''
    ELSE IF Trim(data.message.text) = <<>> THEN "empty"
    ELSE "ok"

\* variant: the text is cut to 1000 characters before it is trimmed
SanitizeTruncateFirst(t) == Trim(Substring0(t, MaxMessageLength))

\* message.trim().substring(0, 1000)
Sanitize(t) == Substring0(Trim(t), MaxMessageLength)

\* variant: the handler reads the identity from the session as it is now
InsertQueryFromSession(c, data) ==
    [qid |-> nq + 1, conn |-> c,
     userId |-> store[c].userId, username |-> store[c].username,
     message |-> Sanitize(data.message.text), timestamp |-> now,
     status |-> "sent", insertId |-> 0]

InsertQuery(c, data) ==
    [qid |-> nq + 1, conn |-> c,
     userId |-> sockUser[c].userId, username |-> sockUser[c].username,
     message |-> Sanitize(data.message.text), timestamp |-> now,
     status |-> "sent", insertId |-> 0]

\* socket.on('chat message'), from the event's arrival to the await
ChatMessage(c, data) ==
    /\ Listening(c, "chat message")
    /\ MayReceive
    /\ Receive(c, "chat message", data)
    /\ LET v == Validate(data) IN
       CASE v = "empty" ->
              /\ inbox' = SocketEmit(inbox, OpenConns, c, ErrorEvt("Message cannot be empty"))
              /\ UNCHANGED <<queries, nq>>
         [] v = "throw" ->
              /\ inbox' = SocketEmit(inbox, OpenConns, c, ErrorEvt("Failed to send message"))
              /\ UNCHANGED <<queries, nq>>
         [] OTHER ->
              /\ queries' = Append(queries, InsertQuery(c, data))
              /\ nq' = nq + 1
              /\ UNCHANGED inbox
    /\ UNCHANGED <<state, session, sockUser, handlers, messages, nextId, now>>

\* socket.on('typing')
Typing(c) ==
    /\ Listening(c, "typing")
    /\ MayReceive
    /\ Receive(c, "typing", NoData)
    /\ inbox' = BroadcastEmit(inbox, OpenConns, c, TypingEvt(sockUser[c].username))
    /\ UNCHANGED <<state, session, sockUser, handlers, messages, nextId, queries, nq, now>>

\* socket.on('stop typing')
StopTyping(c) ==
    /\ Listening(c, "stop typing")
    /\ MayReceive
    /\ Receive(c, "stop typing", NoData)
    /\ inbox' = BroadcastEmit(inbox, OpenConns, c, StopTypingEvt(sockUser[c].username))
    /\ UNCHANGED <<state, session, sockUser, handlers, messages, nextId, queries, nq, now>>

\* an event packet of a socket that was refused: there is no listener, it is dropped
Unhandled(c, ev) ==
    /\ state[c] = "rejected"
    /\ ev \notin handlers[c]
    /\ MayReceive
    /\ Receive(c, ev, NoData)
    /\ UNCHANGED <<state, session, sockUser, handlers, inbox, messages, nextId, queries, nq, now>>

\* ------------------------------------------------------------- database
\* variant: the statements run one at a time, each waiting for the one before it
RunningOneAtATime(i) == i = 1

\* the pool runs at most connectionLimit statements at once, the oldest first
Running(i) == i <= connectionLimit

SetQuery(i, q) == [queries EXCEPT ![i] = q]

RemoveAt(seq, i) == SubSeq(seq, 1, i - 1) \o SubSeq(seq, i + 1, Len(seq))

Row(q, id) ==
    [id |-> id, user_id |-> q.userId, username |-> q.username,
     message |-> q.message, timestamp |-> q.timestamp]

\* variant: two INSERTs read the same counter value (lost update)
AutoIncrementStuck(n) == n

\* id INT AUTO_INCREMENT PRIMARY KEY
AutoIncrement(n) == n + 1

\* MySQL executes the INSERT of query i: the row gets the next AUTO_INCREMENT id
DbInsert(i) ==
    /\ i \in 1..Len(queries)
    /\ queries[i].status = "sent"
    /\ Running(i)
    /\ messages' = Append(messages, Row(queries[i], nextId))
    /\ nextId' = AutoIncrement(nextId)
    /\ queries' = SetQuery(i, [queries[i] EXCEPT !.status = "ok", !.insertId = nextId])
    /\ UNCHANGED <<state, session, sockUser, handlers, inbox, received, nq, now>>

\* pool.execute rejects: query() logs and rethrows
DbFail(i) ==
    /\ i \in 1..Len(queries)
    /\ queries[i].status = "sent"
    /\ queries' = SetQuery(i, [queries[i] EXCEPT !.status = "failed"])
    /\ UNCHANGED <<state, session, sockUser, handlers, inbox, received, messages, nextId, nq, now>>

\* variant: the broadcast does not depend on the INSERT's outcome
SettleAlwaysBroadcast(q) == IoEmit(inbox, OpenConns, ChatEvt(q))

\* variant: socket.broadcast.emit in place of io.emit
SettleExceptSender(q) ==
    IF q.status = "ok"
    THEN BroadcastEmit(inbox, OpenConns, q.conn, ChatEvt(q))
    ELSE SocketEmit(inbox, OpenConns, q.conn, ErrorEvt("Failed to send message"))

\* variant: the failure notice goes to every client
SettleFailureToAll(q) ==
    IF q.status = "ok"
    THEN IoEmit(inbox, OpenConns, ChatEvt(q))
    ELSE IoEmit(inbox, OpenConns, ErrorEvt("Failed to send message"))

\* variant: nothing is broadcast when the sender has gone by the time the INSERT resolves
SettleIfSenderOpen(q) ==
    IF q.status = "ok"
    THEN IoEmit(inbox, IF q.conn \in OpenConns THEN OpenConns ELSE {}, ChatEvt(q))
    ELSE SocketEmit(inbox, OpenConns, q.conn, ErrorEvt("Failed to send message"))

\* what the handler emits once the awaited query settles
Settle(q) ==
    IF q.status = "ok"
    THEN IoEmit(inbox, OpenConns, ChatEvt(q))
    ELSE SocketEmit(inbox, OpenConns, q.conn, ErrorEvt("Failed to send message"))

\* the 'chat message' handler after the await: io.emit, or the catch block
Resume(i) ==
    /\ i \in 1..Len(queries)
    /\ queries[i].status # "sent"
    /\ inbox' = Settle(queries[i])
    /\ queries' = RemoveAt(queries, i)
    /\ UNCHANGED <<state, session, sockUser, handlers, received, messages, nextId, nq, now>>

\* ------------------------------------------------------------ disconnect
\* the transport closes; the socket has left the namespace when 'disconnect' fires
Disconnect(c) ==
    /\ state[c] = "open"
    /\ state' = [state EXCEPT ![c] = "closed"]
    /\ inbox' = IF "disconnect" \in handlers[c]
                THEN BroadcastEmit(inbox, OpenConns \ {c}, c, LeftEvt(sockUser[c].username, now))
                ELSE inbox
    /\ UNCHANGED <<session, sockUser, handlers, received, messages, nextId, queries, nq, now>>

\* time passes
Tick ==
    /\ now < MaxClock
    /\ now' = now + 1
    /\ UNCHANGED <<state, session, sockUser, handlers, inbox, received, messages, nextId, queries, nq>>

Next ==
    \/ \E c \in Conn, s \in Sessions : Connect(c, s) /\ UNCHANGED <<pageVars, envVars>>
    \/ \E c \in Conn, d \in Payloads : ChatMessage(c, d) /\ UNCHANGED <<pageVars, envVars>>
    \/ \E c \in Conn : Typing(c) /\ UNCHANGED <<pageVars, envVars>>
    \/ \E c \in Conn : StopTyping(c) /\ UNCHANGED <<pageVars, envVars>>
    \/ \E c \in Conn, ev \in {"chat message", "typing", "stop typing"} : Unhandled(c, ev) /\ UNCHANGED <<pageVars, envVars>>
    \/ \E i \in 1..MaxEvents : DbInsert(i) /\ UNCHANGED <<pageVars, envVars>>
    \/ \E i \in 1..MaxEvents : DbFail(i) /\ UNCHANGED <<pageVars, envVars>>
    \/ \E i \in 1..MaxEvents : Resume(i) /\ UNCHANGED <<pageVars, envVars>>
    \/ \E c \in Conn : Disconnect(c) /\ UNCHANGED <<pageVars, envVars>>
    \/ Tick /\ UNCHANGED <<pageVars, envVars>>

Spec == Init /\ [][Next]_vars

\* the same server, with logged-in clients that submit long texts
NextLong ==
    \/ \E c \in Conn, u \in Users : Connect(c, UserSession(u)) /\ UNCHANGED <<pageVars, envVars>>
    \/ \E c \in Conn, d \in LongPayloads : ChatMessage(c, d) /\ UNCHANGED <<pageVars, envVars>>
    \/ \E i \in 1..MaxEvents : DbInsert(i) /\ UNCHANGED <<pageVars, envVars>>
    \/ \E i \in 1..MaxEvents : DbFail(i) /\ UNCHANGED <<pageVars, envVars>>
    \/ \E i \in 1..MaxEvents : Resume(i) /\ UNCHANGED <<pageVars, envVars>>
    \/ \E c \in Conn : Disconnect(c) /\ UNCHANGED <<pageVars, envVars>>
    \/ Tick /\ UNCHANGED <<pageVars, envVars>>

SpecLong == Init /\ [][NextLong]_vars

\* the same server, with logged-in clients that send malformed payloads
NextMalformed ==
    \/ \E c \in Conn, u \in Users : Connect(c, UserSession(u)) /\ UNCHANGED <<pageVars, envVars>>
    \/ \E c \in Conn, d \in MixedPayloads : ChatMessage(c, d) /\ UNCHANGED <<pageVars, envVars>>
    \/ \E i \in 1..MaxEvents : DbInsert(i) /\ UNCHANGED <<pageVars, envVars>>
    \/ \E i \in 1..MaxEvents : Resume(i) /\ UNCHANGED <<pageVars, envVars>>
    \/ \E c \in Conn : Disconnect(c) /\ UNCHANGED <<pageVars, envVars>>

SpecMalformed == Init /\ [][NextMalformed]_vars

\* ======================================================== session store
\* POST /api/auth/login, when the user is found and the password matches
Login(c, u) ==
    /\ store' = [store EXCEPT ![c] = UserSession(u)]
    /\ UNCHANGED <<state, session, sockUser, handlers, inbox, received, messages,
                   nextId, queries, nq, now, pageVars, broken, users, auth, hostVars>>

\* variant: logging out also closes the socket that was opened with the session
LogoutClosingSocket(c) ==
    /\ store' = [store EXCEPT ![c] = NoSession]
    /\ state' = [state EXCEPT ![c] = IF @ = "open" THEN "closed" ELSE @]
    /\ UNCHANGED <<session, sockUser, handlers, inbox, received, messages,
                   nextId, queries, nq, now, pageVars, broken, users, auth, hostVars>>

\* POST /api/auth/logout: req.session.destroy, res.clearCookie
Logout(c) ==
    /\ store' = [store EXCEPT ![c] = NoSession]
    /\ UNCHANGED <<state, session, sockUser, handlers, inbox, received, messages,
                   nextId, queries, nq, now, pageVars, broken, users, auth, hostVars>>

\* cookie.maxAge has passed: the store no longer returns the session
Expire(c) ==
    /\ store[c].present
    /\ store' = [store EXCEPT ![c] = NoSession]
    /\ UNCHANGED <<state, session, sockUser, handlers, inbox, received, messages,
                   nextId, queries, nq, now, pageVars, broken, users, auth, hostVars>>

\* io.use: the session middleware loads the session of the handshake's cookie
Handshake(c) == Connect(c, store[c])

\* the server with browsers that log in and out while their sockets are open
NextSession ==
    \/ \E c \in Conn, u \in Users : Login(c, u)
    \/ \E c \in Conn : Logout(c)
    \/ \E c \in Conn : Expire(c)
    \/ \E c \in Conn : Handshake(c) /\ UNCHANGED <<pageVars, envVars>>
    \/ \E c \in Conn : ChatMessage(c, DataWith(StringValue(<<Run("b", 1)>>))) /\ UNCHANGED <<pageVars, envVars>>
    \/ \E c \in Conn : Typing(c) /\ UNCHANGED <<pageVars, envVars>>
    \/ \E i \in 1..MaxEvents : DbInsert(i) /\ UNCHANGED <<pageVars, envVars>>
    \/ \E i \in 1..MaxEvents : Resume(i) /\ UNCHANGED <<pageVars, envVars>>
    \/ \E c \in Conn : Disconnect(c) /\ UNCHANGED <<pageVars, envVars>>

SpecSession == Init /\ [][NextSession]_vars

\* =========================================================== transports
\* the transport of an open connection fails; the server has not noticed yet
TransportFail(c) ==
    /\ state[c] = "open"
    /\ c \notin broken
    /\ broken' = broken \cup {c}
    /\ UNCHANGED <<state, session, sockUser, handlers, inbox, received, messages,
                   nextId, queries, nq, now, pageVars, store, users, auth, hostVars>>

\* the server with transports that fail before the close is detected
NextDelivery ==
    \/ \E c \in Conn, u \in Users : Connect(c, UserSession(u)) /\ UNCHANGED <<pageVars, envVars>>
    \/ \E c \in Conn : ChatMessage(c, DataWith(StringValue(<<Run("b", 1)>>))) /\ UNCHANGED <<pageVars, envVars>>
    \/ \E i \in 1..MaxEvents : DbInsert(i) /\ UNCHANGED <<pageVars, envVars>>
    \/ \E i \in 1..MaxEvents : DbFail(i) /\ UNCHANGED <<pageVars, envVars>>
    \/ \E i \in 1..MaxEvents : Resume(i) /\ UNCHANGED <<pageVars, envVars>>
    \/ \E c \in Conn : TransportFail(c)
    \/ \E c \in Conn : Disconnect(c) /\ UNCHANGED <<pageVars, envVars>>

SpecDelivery == Init /\ [][NextDelivery]_vars

\* ========================================================== auth routes
Respond(r, status, message) ==
    [r EXCEPT !.pc = "responded", !.status = status, !.message = message]

\* the session as POST /login fills it from the row it found
SessionOf(row) ==
    [present |-> TRUE, userId |-> row.id, username |-> row.username, email |-> row.email]

\* SELECT ... FROM users WHERE username = ?
SelectByUsername(name) == SelectSeq(users, LAMBDA row : row.username = name)

\* POST /api/auth/login up to the first await: the fields are checked
PostLogin(c, name, pw) ==
    /\ auth[c].pc = "none"
    /\ \A d \in Conn : d < c => auth[d].pc # "none"      \* browsers ask in order
    /\ LET r == [NoAuth EXCEPT !.route = "/login", !.username = name, !.password = pw]
       IN  auth' = [auth EXCEPT ![c] =
                       IF Falsy(name) \/ Falsy(pw)
                       THEN Respond(r, 400, "Username and password are required")
                       ELSE [r EXCEPT !.pc = "select"]]
    /\ UNCHANGED <<serverVars, pageVars, store, broken, users, hostVars>>

\* the SELECT resolves: no such user, or the row goes on to comparePassword
LoginSelect(c) ==
    /\ auth[c].route = "/login" /\ auth[c].pc = "select"
    /\ LET rows == SelectByUsername(auth[c].username.text)
       IN  auth' = [auth EXCEPT ![c] =
                       IF Len(rows) = 0
                       THEN Respond(@, 401, "Invalid username or password")
                       ELSE [@ EXCEPT !.pc = "compare", !.user = rows[1]]]
    /\ UNCHANGED <<serverVars, pageVars, store, broken, users, hostVars>>

\* comparePassword resolves: the session is filled, or the login is refused
LoginCompare(c) ==
    /\ auth[c].route = "/login" /\ auth[c].pc = "compare"
    /\ IF ComparePassword(auth[c].password.text, auth[c].user.password)
       THEN /\ store' = [store EXCEPT ![c] = SessionOf(auth[c].user)]
            /\ auth' = [auth EXCEPT ![c] = Respond(@, 200, "Login successful!")]
       ELSE /\ auth' = [auth EXCEPT ![c] = Respond(@, 401, "Invalid username or password")]
            /\ UNCHANGED store
    /\ UNCHANGED <<serverVars, pageVars, broken, users, hostVars>>

\* the SELECT or comparePassword rejects: the catch block answers 500
LoginFail(c) ==
    /\ auth[c].route = "/login" /\ auth[c].pc \in {"select", "compare"}
    /\ auth' = [auth EXCEPT ![c] =
                   Respond(@, 500, "Server error during login. Please try again.")]
    /\ UNCHANGED <<serverVars, pageVars, store, broken, users, hostVars>>

\* the browser has read the response
AuthClose(c) ==
    /\ auth[c].pc = "responded"
    /\ auth' = [auth EXCEPT ![c] = NoAuth]
    /\ UNCHANGED <<serverVars, pageVars, store, broken, users, hostVars>>

\* what a login form may send
LoginNames == {Absent, Field(""), Field("alice"), Field("bob"), Field("zed")}
LoginPasswords == {Absent, Field("secret1"), Field("wrong")}

\* browsers that log in and out against the accounts of alice and bob
NextLogin ==
    \/ \E c \in Conn, name \in LoginNames, pw \in LoginPasswords : PostLogin(c, name, pw)
    \/ \E c \in Conn : LoginSelect(c)
    \/ \E c \in Conn : LoginCompare(c)
    \/ \E c \in Conn : LoginFail(c)
    \/ \E c \in Conn : AuthClose(c)
    \/ \E c \in Conn : Logout(c)

SpecLogin == Init /\ [][NextLogin]_vars

\* --------------------------------------------------------- registration
\* /^[^\s@]+@[^\s@]+\.[^\s@]+$/ : no whitespace, exactly one "@" with
\* something before it, and after it a "." with something on both sides
IsEmail(s) ==
    /\ \A i \in Indices(s) : s[i] # "ws"
    /\ Cardinality({i \in Indices(s) : s[i] = "@"}) = 1
    /\ \E i \in Indices(s) :
          /\ s[i] = "@" /\ i > 1
          /\ \E j \in Indices(s) : j > i + 1 /\ j < Len(s) /\ s[j] = "."

\* the checks of POST /register before the first await: "" when they pass
RegisterError(name, email, pw) ==
    IF Falsy(name) \/ FalsyChars(email) \/ Falsy(pw)
    THEN "All fields are required (username, email, password)"
    ELSE IF Len(name.text) < 3 \/ Len(name.text) > 50
    THEN "Username must be between 3 and 50 characters"
    ELSE IF ~IsEmail(email.text)
    THEN "Please enter a valid email address"
    ELSE IF Len(pw.text) < 6
    THEN "Password must be at least 6 characters"
    ELSE ""

\* POST /api/auth/register up to the first await
PostRegister(c, name, email, pw) ==
    /\ auth[c].pc = "none"
    /\ \A d \in Conn : d < c => auth[d].pc # "none"      \* browsers ask in order
    /\ LET r == [NoAuth EXCEPT !.route = "/register", !.username = name,
                               !.email = email, !.password = pw]
           e == RegisterError(name, email, pw)
       IN  auth' = [auth EXCEPT ![c] =
                       IF e # "" THEN Respond(r, 400, e) ELSE [r EXCEPT !.pc = "select"]]
    /\ UNCHANGED <<serverVars, pageVars, store, broken, users, hostVars>>

\* the rows that stand in the way of a username or an e-mail address
Taken(name, email) == {j \in Indices(users) : users[j].username = name \/ users[j].email = email}

\* SELECT id FROM users WHERE username = ? OR email = ? resolves
RegisterSelect(c) ==
    /\ auth[c].route = "/register" /\ auth[c].pc = "select"
    /\ auth' = [auth EXCEPT ![c] =
                   IF Taken(auth[c].username.text, auth[c].email.text) # {}
                   THEN Respond(@, 409, "Username or email already exists")
                   ELSE [@ EXCEPT !.pc = "insert"]]
    /\ UNCHANGED <<serverVars, pageVars, store, broken, users, hostVars>>

\* the password is hashed and MySQL executes the INSERT: the UNIQUE keys on
\* username and email reject a duplicate, which the catch block answers
RegisterInsert(c) ==
    /\ auth[c].route = "/register" /\ auth[c].pc = "insert"
    /\ IF Taken(auth[c].username.text, auth[c].email.text) # {}
       THEN /\ auth' = [auth EXCEPT ![c] =
                           Respond(@, 500, "Server error during registration. Please try again.")]
            /\ UNCHANGED users
       ELSE /\ users' = Append(users, UserRow(Len(users) + 1, auth[c].username.text,
                                              auth[c].email.text, auth[c].password.text))
            /\ auth' = [auth EXCEPT ![c] =
                           Respond(@, 201, "Registration successful! Please log in.")]
    /\ UNCHANGED <<serverVars, pageVars, store, broken, hostVars>>

\* what a registration form may send
RegisterNames == {Absent, Field("al"), Field("carol"), Field("dave")}
RegisterEmails ==
    {FieldChars(<<"c", "@", "x">>), FieldChars(UserEmail(3)),
     FieldChars(<<"d", "@", "x", ".", "y">>)}
RegisterPasswords == {Field("short"), Field("secret3")}

\* two browsers that each send one registration; no statement fails
NextRegister ==
    \/ \E c \in Conn, name \in RegisterNames, email \in RegisterEmails,
          pw \in RegisterPasswords : PostRegister(c, name, email, pw)
    \/ \E c \in Conn : RegisterSelect(c)
    \/ \E c \in Conn : RegisterInsert(c)

SpecRegister == Init /\ [][NextRegister]_vars

\* ======================================================== process start
\* for (...; attempt <= retries; ...): the next attempt, or return false
Loop(b) ==
    IF b.attempt <= b.retries
    THEN [b EXCEPT !.pc = "try"]
    ELSE [b EXCEPT !.pc = "returned", !.result = FALSE]

\* variant: the wait also follows the last attempt
MoreAttemptsInclusive(attempt, retries) == attempt <= retries

\* if (attempt < retries): a failed attempt is followed by a wait
MoreAttempts(attempt, retries) == attempt < retries

\* startServer calls testConnection: let attempt = 1
StartServer ==
    /\ boot.pc = "start"
    /\ boot' = Loop([boot EXCEPT !.attempt = 1])
    /\ UNCHANGED <<serverVars, pageVars, store, broken, users, auth, public, nav>>

\* getConnection and SELECT 1 both resolve: return true
AttemptSucceeds ==
    /\ boot.pc = "try"
    /\ boot' = [boot EXCEPT !.pc = "returned", !.result = TRUE, !.tried = @ + 1]
    /\ UNCHANGED <<serverVars, pageVars, store, broken, users, auth, public, nav>>

\* getConnection or SELECT 1 rejects: the catch block
AttemptFails ==
    /\ boot.pc = "try"
    /\ boot' = IF MoreAttempts(boot.attempt, boot.retries)
               THEN [boot EXCEPT !.pc = "wait", !.tried = @ + 1]
               ELSE Loop([boot EXCEPT !.tried = @ + 1, !.attempt = @ + 1])
    /\ UNCHANGED <<serverVars, pageVars, store, broken, users, auth, public, nav>>

\* the setTimeout of the catch block fires: attempt++
DelayElapses ==
    /\ boot.pc = "wait"
    /\ boot' = Loop([boot EXCEPT !.slept = @ + boot.delay, !.attempt = @ + 1])
    /\ UNCHANGED <<serverVars, pageVars, store, broken, users, auth, public, nav>>

\* startServer after the await: process.exit(1) or server.listen
Listen ==
    /\ boot.pc = "returned"
    /\ boot' = [boot EXCEPT !.pc = IF boot.result THEN "listening" ELSE "exit"]
    /\ UNCHANGED <<serverVars, pageVars, store, broken, users, auth, public, nav>>

InitBoot ==
    /\ state = [c \in Conn |-> "new"]
    /\ session = [c \in Conn |-> NoSession]
    /\ sockUser = [c \in Conn |-> [userId |-> 0, username |-> ""]]
    /\ handlers = [c \in Conn |-> {}]
    /\ inbox = [c \in Conn |-> <<>>]
    /\ received = [c \in Conn |-> <<>>]
    /\ messages = <<>>
    /\ nextId = 1
    /\ queries = <<>>
    /\ nq = 0
    /\ now = 0
    /\ http = [c \in Conn |-> NoRequest]
    /\ wire = [c \in Conn |-> <<>>]
    /\ seen = [c \in Conn |-> 0]
    /\ shown = [c \in Conn |-> <<>>]
    /\ typingTimeout = [c \in Conn |-> FALSE]
    /\ store = [c \in Conn |-> NoSession]
    /\ broken = {}
    /\ users = RegisteredUsers
    /\ auth = [c \in Conn |-> NoAuth]
    /\ boot \in {NotStarted(r, d) : r \in Retries, d \in Delays}
    /\ public = PublicFiles
    /\ nav = [c \in Conn |-> NoNav]

NextBoot ==
    \/ StartServer
    \/ AttemptSucceeds
    \/ AttemptFails
    \/ DelayElapses
    \/ Listen

SpecBoot == InitBoot /\ [][NextBoot]_vars

\* ========================================================== page routes
\* express.static: the file a path names in the public directory, with
\* index.html for the directory itself
StaticFile(path) == IF path = "/" THEN "index.html" ELSE "chat.html"

\* req.session && req.session.userId
LoggedIn(s) == s.present /\ s.userId # 0

Served(n, f) == [n EXCEPT !.pc = "served", !.file = f, !.status = 200]
Redirected(n, to) == [n EXCEPT !.pc = "redirected", !.file = to, !.status = 302]

\* res.sendFile: the file, or an error that the global error handler answers
SendFile(n, f) ==
    IF f \in public THEN Served(n, f) ELSE [n EXCEPT !.pc = "failed", !.status = 500]

\* app.get('/') and app.get('/chat.html')
PageRoute(n, s) ==
    IF n.path = "/"
    THEN IF LoggedIn(s) THEN Redirected(n, "/chat.html") ELSE SendFile(n, "index.html")
    ELSE IF ~LoggedIn(s) THEN Redirected(n, "/") ELSE SendFile(n, "chat.html")

\* the browser asks for a page
Get(c, path) ==
    /\ nav[c].pc = "none"
    /\ nav' = [nav EXCEPT ![c] = [NoNav EXCEPT !.pc = "sent", !.first = path, !.path = path]]
    /\ UNCHANGED <<serverVars, pageVars, store, broken, users, auth, boot, public>>

\* the request runs through the middleware in the order of its mounting:
\* the session is loaded, express.static answers when the file exists and
\* calls next when it does not, and only then the page routes run
PageRequest(c) ==
    /\ nav[c].pc = "sent"
    /\ nav' = [nav EXCEPT ![c] =
                  IF StaticFile(@.path) \in public
                  THEN Served(@, StaticFile(@.path))
                  ELSE PageRoute(@, store[c])]
    /\ UNCHANGED <<serverVars, pageVars, store, broken, users, auth, boot, public>>

\* the browser follows the Location of a 302
FollowRedirect(c) ==
    /\ nav[c].pc = "redirected"
    /\ nav' = [nav EXCEPT ![c] = [@ EXCEPT !.pc = "sent", !.path = nav[c].file,
                                           !.file = "", !.status = 0, !.hops = @ + 1]]
    /\ UNCHANGED <<serverVars, pageVars, store, broken, users, auth, boot, public>>

\* the page is left
NavClose(c) ==
    /\ nav[c].pc \in {"served", "failed"}
    /\ nav' = [nav EXCEPT ![c] = NoNav]
    /\ UNCHANGED <<serverVars, pageVars, store, broken, users, auth, boot, public>>

\* a deployment with or without the pages in its public directory
InitNav ==
    /\ state = [c \in Conn |-> "new"]
    /\ session = [c \in Conn |-> NoSession]
    /\ sockUser = [c \in Conn |-> [userId |-> 0, username |-> ""]]
    /\ handlers = [c \in Conn |-> {}]
    /\ inbox = [c \in Conn |-> <<>>]
    /\ received = [c \in Conn |-> <<>>]
    /\ messages = <<>>
    /\ nextId = 1
    /\ queries = <<>>
    /\ nq = 0
    /\ now = 0
    /\ http = [c \in Conn |-> NoRequest]
    /\ wire = [c \in Conn |-> <<>>]
    /\ seen = [c \in Conn |-> 0]
    /\ shown = [c \in Conn |-> <<>>]
    /\ typingTimeout = [c \in Conn |-> FALSE]
    /\ store = [c \in Conn |-> NoSession]
    /\ broken = {}
    /\ users = RegisteredUsers
    /\ auth = [c \in Conn |-> NoAuth]
    /\ boot = ServerUp
    /\ public \in SUBSET PublicFiles
    /\ nav = [c \in Conn |-> NoNav]

\* browsers that log in and out between page requests, never during one
NextNav ==
    \/ \E c \in Conn, u \in Users : nav[c].pc = "none" /\ Login(c, u)
    \/ \E c \in Conn : nav[c].pc = "none" /\ store[c].present /\ Logout(c)
    \/ \E c \in Conn, path \in {"/", "/chat.html"} : Get(c, path)
    \/ \E c \in Conn : PageRequest(c)
    \/ \E c \in Conn : FollowRedirect(c)
    \/ \E c \in Conn : NavClose(c)

SpecNav == InitNav /\ [][NextNav]_vars

\* =========================================================== http routes
\* ----------------------------------------------------- query parameters
\* req.query.<name>: undefined, or the string of the URL (a sequence of
\* characters; "ws" stands for a whitespace character)
QAbsent == [present |-> FALSE, chars |-> <<>>]
QString(s) == [present |-> TRUE, chars |-> s]

\* a JavaScript number: NaN or an integer
NaN == [nan |-> TRUE, n |-> 0]
Num(n) == [nan |-> FALSE, n |-> n]

DigitVal(ch) ==
    CASE ch = "0" -> 0 [] ch = "1" -> 1 [] ch = "2" -> 2 [] ch = "3" -> 3
      [] ch = "4" -> 4 [] ch = "5" -> 5 [] ch = "6" -> 6 [] ch = "7" -> 7
      [] ch = "8" -> 8 [] ch = "9" -> 9 [] ch = "a" -> 10 [] ch = "b" -> 11
      [] ch = "c" -> 12 [] ch = "d" -> 13 [] ch = "e" -> 14 [] ch = "f" -> 15
      [] OTHER -> 36

RECURSIVE SkipWhiteSpace(_)
SkipWhiteSpace(s) ==
    IF s # <<>> /\ Head(s) = "ws" THEN SkipWhiteSpace(Tail(s)) ELSE s

\* the value of the longest prefix of s made of digits of the radix, after acc;
\* seenDigit tells whether acc already stands for a digit
RECURSIVE ParseDigits(_, _, _, _)
ParseDigits(s, radix, acc, seenDigit) ==
    IF s # <<>> /\ DigitVal(Head(s)) < radix
    THEN ParseDigits(Tail(s), radix, acc * radix + DigitVal(Head(s)), TRUE)
    ELSE IF seenDigit THEN Num(acc) ELSE NaN

\* parseInt(string) with no radix: leading whitespace, a sign, "0x" for
\* radix 16, then the longest run of digits; NaN when there is none
ParseInt(q) ==
    IF ~q.present THEN NaN                       \* parseInt(undefined)
    ELSE LET s1 == SkipWhiteSpace(q.chars)
             neg == s1 # <<>> /\ Head(s1) = "-"
             s2 == IF s1 # <<>> /\ Head(s1) \in {"+", "-"} THEN Tail(s1) ELSE s1
             hex == Len(s2) >= 2 /\ s2[1] = "0" /\ s2[2] = "x"
             r == IF hex THEN ParseDigits(Tail(Tail(s2)), 16, 0, FALSE)
                         ELSE ParseDigits(s2, 10, 0, FALSE)
         IN  IF r.nan THEN NaN ELSE IF neg THEN Num(0 - r.n) ELSE r

\* x || d for a number x: d when x is NaN or 0
OrDefault(x, d) == IF x.nan \/ x.n = 0 THEN d ELSE x.n

Max(a, b) == IF a >= b THEN a ELSE b
Min(a, b) == IF a <= b THEN a ELSE b

\* variant: the lower clamp is missing
SafeLimitNoFloor(limit) == Min(limit, MaxLimit)

\* Math.min(Math.max(limit, 1), 100)
SafeLimit(limit) == Min(Max(limit, 1), MaxLimit)

\* the strings a request may carry as limit or offset
LimitParams ==
    { QAbsent, QString(<<>>), QString(<<"a", "b">>), QString(<<"0">>),
      QString(<<"-", "0">>), QString(<<"-", "3">>), QString(<<"1">>),
      QString(<<"+", "2">>), QString(<<"5", "0">>), QString(<<"1", "0", "0">>),
      QString(<<"1", "0", "1">>), QString(<<"ws", "3", "x">>),
      QString(<<"2", ".", "9">>), QString(<<"0", "x", "f", "f">>),
      QString(<<"-", "0", "x", "2">>) }

OffsetParams ==
    { QAbsent, QString(<<"a", "b">>), QString(<<"0">>), QString(<<"1">>),
      QString(<<"2">>), QString(<<"-", "1">>), QString(<<"1", ".", "5">>) }

\* --------------------------------------------------------------- store
\* the orders in which ORDER BY timestamp ASC may return the rows of a
\* table: rows of equal timestamp come in any order
Orderings(table) ==
    {o \in [Indices(table) -> Indices(table)] :
        /\ \A i, j \in Indices(table) : i # j => o[i] # o[j]
        /\ \A i, j \in Indices(table) : i < j => table[o[i]].timestamp <= table[o[j]].timestamp}

\* LIMIT limit OFFSET offset of the rows taken in the order o
Page(table, o, limit, offset) ==
    [k \in 1..Max(0, Min(limit, Len(table) - offset)) |-> table[o[offset + k]]]

\* variant: the newest rows are selected (ORDER BY timestamp DESC in a
\* subquery) and returned oldest first
SelectNewest(table, limit, offset) ==
    {Page(table, o, limit, Max(0, Len(table) - limit - offset)) : o \in Orderings(table)}

\* SELECT ... FROM messages ORDER BY timestamp ASC LIMIT ? OFFSET ?
SelectMessages(table, limit, offset) ==
    {Page(table, o, limit, offset) : o \in Orderings(table)}

StoreCall(sql, limit, offset) ==
    [sql |-> sql, limit |-> limit, offset |-> offset, status |-> "sent", rows |-> <<>>, total |-> 0]

\* ------------------------------------------------------------ middleware
\* variant: only the presence of req.session is checked
IsAuthenticatedSessionOnly(s) == s.present

\* isAuthenticated: req.session && req.session.userId
IsAuthenticated(s) == s.present /\ s.userId # 0

Unauthorized(r) == [r EXCEPT !.pc = "responded", !.status = 401]

\* ---------------------------------------------------------------- routes
\* a request arrives with its session cookie resolved and its query parsed
HttpRequest(c, route, s, lim, off) ==
    /\ http[c].pc = "none"
    /\ http' = [http EXCEPT ![c] =
                  [pc |-> "sent", route |-> route, session |-> s, limit |-> lim,
                   offset |-> off, calls |-> <<>>, status |-> 0, rows |-> <<>>,
                   user |-> NoUser, stats |-> NoStats]]

\* GET /api/chat/messages up to the await
GetMessages(c) ==
    /\ http[c].pc = "sent" /\ http[c].route = "/messages"
    /\ LET r == http[c]
           limit == OrDefault(ParseInt(r.limit), DefaultLimit)
           offset == OrDefault(ParseInt(r.offset), 0)
       IN  http' = [http EXCEPT ![c] =
              IF ~IsAuthenticated(r.session) THEN Unauthorized(r)
              ELSE [r EXCEPT !.pc = "awaiting",
                             !.calls = <<StoreCall("select messages", SafeLimit(limit), offset)>>]]

\* GET /api/chat/user
GetUser(c) ==
    /\ http[c].pc = "sent" /\ http[c].route = "/user"
    /\ LET r == http[c]
       IN  http' = [http EXCEPT ![c] =
              IF ~IsAuthenticated(r.session) THEN Unauthorized(r)
              ELSE [r EXCEPT !.pc = "responded", !.status = 200,
                             !.user = [id |-> r.session.userId,
                                       username |-> r.session.username]]]

\* GET /api/chat/stats up to the first await
GetStats(c) ==
    /\ http[c].pc = "sent" /\ http[c].route = "/stats"
    /\ LET r == http[c]
       IN  http' = [http EXCEPT ![c] =
              IF ~IsAuthenticated(r.session) THEN Unauthorized(r)
              ELSE [r EXCEPT !.pc = "awaiting",
                             !.calls = <<StoreCall("count messages", 0, 0)>>]]

CurrentCall(c) == Last(http[c].calls)

SetCall(c, call) ==
    [http EXCEPT ![c] = [@ EXCEPT !.pc = "settled", !.calls[Len(@.calls)] = call]]

\* MySQL runs the awaited statement of the request of c
DbSelect(c) ==
    /\ http[c].pc = "awaiting"
    /\ LET q == CurrentCall(c) IN
       CASE q.sql = "select messages" ->
              IF q.offset < 0
              THEN http' = SetCall(c, [q EXCEPT !.status = "failed"])     \* rejected by MySQL
              ELSE \E rows \in SelectMessages(messages, q.limit, q.offset) :
                      http' = SetCall(c, [q EXCEPT !.status = "ok", !.rows = rows])
         [] q.sql = "count messages" ->
              http' = SetCall(c, [q EXCEPT !.status = "ok", !.total = Len(messages)])
         [] OTHER ->
              http' = SetCall(c, [q EXCEPT !.status = "ok", !.total = Cardinality(Users)])

\* pool.execute rejects: query() logs and rethrows
DbSelectFail(c) ==
    /\ http[c].pc = "awaiting"
    /\ http' = SetCall(c, [CurrentCall(c) EXCEPT !.status = "failed"])

\* the route handler after an await: the next query, res.json, or the catch block
HttpResume(c) ==
    /\ http[c].pc = "settled"
    /\ LET r == http[c]
           q == CurrentCall(c)
       IN  http' = [http EXCEPT ![c] =
              IF q.status = "failed" THEN [r EXCEPT !.pc = "responded", !.status = 500]
              ELSE IF q.sql = "select messages"
                   THEN [r EXCEPT !.pc = "responded", !.status = 200, !.rows = q.rows]
              ELSE IF q.sql = "count messages"
                   THEN [r EXCEPT !.pc = "awaiting",
                                  !.calls = Append(r.calls, StoreCall("count users", 0, 0))]
              ELSE [r EXCEPT !.pc = "responded", !.status = 200,
                             !.stats = [totalMessages |-> r.calls[1].total,
                                        totalUsers |-> q.total]]]

\* the response has been read; the page may send another request
HttpClose(c) ==
    /\ http[c].pc = "responded"
    /\ http' = [http EXCEPT ![c] = NoRequest]


\* the tables the chat server can have left behind: ids in insertion order,
\* each row stamped with the clock of its handler
StoredRow(id, ts) ==
    [id |-> id, user_id |-> 1, username |-> UserName(1),
     message |-> <<Run("b", 1)>>, timestamp |-> ts]

Tables ==
    UNION {{[k \in 1..n |-> StoredRow(k, ts[k])] : ts \in [1..n -> 0..MaxClock]} : n \in 0..MaxRows}

InitHttp ==
    /\ state = [c \in Conn |-> "new"]
    /\ session = [c \in Conn |-> NoSession]
    /\ sockUser = [c \in Conn |-> [userId |-> 0, username |-> ""]]
    /\ handlers = [c \in Conn |-> {}]
    /\ inbox = [c \in Conn |-> <<>>]
    /\ received = [c \in Conn |-> <<>>]
    /\ messages \in Tables
    /\ nextId = Len(messages) + 1
    /\ queries = <<>>
    /\ nq = 0
    /\ now = MaxClock
    /\ http = [c \in Conn |-> NoRequest]
    /\ wire = [c \in Conn |-> <<>>]
    /\ seen = [c \in Conn |-> 0]
    /\ shown = [c \in Conn |-> <<>>]
    /\ typingTimeout = [c \in Conn |-> FALSE]
    /\ store = [c \in Conn |-> NoSession]
    /\ broken = {}
    /\ users = RegisteredUsers
    /\ auth = [c \in Conn |-> NoAuth]
    /\ boot = ServerUp
    /\ public = PublicFiles
    /\ nav = [c \in Conn |-> NoNav]

NoneInFlight == \A d \in Conn : http[d].pc = "none"

\* requests to the three routes, one at a time, against a table at rest
NextHttp ==
    \/ \E c \in Conn, s \in Sessions, lim \in LimitParams, off \in OffsetParams :
          NoneInFlight /\ HttpRequest(c, "/messages", s, lim, off) /\ UNCHANGED <<serverVars, wire, seen, shown, typingTimeout, envVars>>
    \/ \E c \in Conn, s \in Sessions, r \in {"/user", "/stats"} :
          NoneInFlight /\ HttpRequest(c, r, s, QAbsent, QAbsent) /\ UNCHANGED <<serverVars, wire, seen, shown, typingTimeout, envVars>>
    \/ \E c \in Conn : GetMessages(c) /\ UNCHANGED <<serverVars, wire, seen, shown, typingTimeout, envVars>>
    \/ \E c \in Conn : GetUser(c) /\ UNCHANGED <<serverVars, wire, seen, shown, typingTimeout, envVars>>
    \/ \E c \in Conn : GetStats(c) /\ UNCHANGED <<serverVars, wire, seen, shown, typingTimeout, envVars>>
    \/ \E c \in Conn : DbSelect(c) /\ UNCHANGED <<serverVars, wire, seen, shown, typingTimeout, envVars>>
    \/ \E c \in Conn : DbSelectFail(c) /\ UNCHANGED <<serverVars, wire, seen, shown, typingTimeout, envVars>>
    \/ \E c \in Conn : HttpResume(c) /\ UNCHANGED <<serverVars, wire, seen, shown, typingTimeout, envVars>>
    \/ \E c \in Conn : HttpClose(c) /\ UNCHANGED <<serverVars, wire, seen, shown, typingTimeout, envVars>>

SpecHttp == InitHttp /\ [][NextHttp]_vars

\* ========================================================== browser page
\* the page of connection handle c: src/js/chat.js
HistoryRequest(s) ==
    [pc |-> "sent", route |-> "/messages", session |-> s,
     limit |-> QString(<<"5", "0">>), offset |-> QAbsent,
     calls |-> <<>>, status |-> 0, rows |-> <<>>, user |-> NoUser, stats |-> NoStats]

\* checkAuth, for a browser that is logged in as u: initSocket() starts the
\* handshake and loadMessageHistory() sends its request, neither is awaited
CheckAuth(c, u) ==
    /\ http[c].pc = "none" /\ state[c] = "new"
    /\ \A d \in Conn : d < c => http[d].pc # "none"      \* pages are opened in order
    /\ http' = [http EXCEPT ![c] = HistoryRequest(UserSession(u))]
    /\ UNCHANGED <<serverVars, wire, seen, shown, typingTimeout, envVars>>

\* the handshake of the socket that initSocket() opened reaches the server
PageConnect(c) ==
    /\ http[c].pc # "none"
    /\ Connect(c, http[c].session)
    /\ UNCHANGED <<pageVars, envVars>>

\* addMessage: one more element at the end of the messages container
AddMessage(list, id, via) == Append(list, [id |-> id, via |-> via])

RECURSIVE AddMessages(_, _)
AddMessages(list, rows) ==
    IF rows = <<>> THEN list
    ELSE AddMessages(AddMessage(list, Head(rows).id, "history"), Tail(rows))

\* loadMessageHistory after the await: data.messages.forEach(addMessage)
HistoryLoaded(c) ==
    /\ http[c].pc = "responded"
    /\ http' = [http EXCEPT ![c].pc = "done"]
    /\ shown' = [shown EXCEPT ![c] =
                    IF http[c].status = 200 /\ http[c].rows # <<>>
                    THEN AddMessages(@, http[c].rows)
                    ELSE @]
    /\ UNCHANGED <<serverVars, wire, seen, typingTimeout, envVars>>

\* the socket's listeners handle the next event the server delivered:
\* socket.on('chat message') calls addMessage, the others leave the messages alone
SocketOn(c) ==
    /\ seen[c] < Len(inbox[c])
    /\ seen' = [seen EXCEPT ![c] = @ + 1]
    /\ LET ev == inbox[c][seen[c] + 1]
       IN  shown' = [shown EXCEPT ![c] =
                        IF ev.type = "chat message" THEN AddMessage(@, ev.id, "live") ELSE @]
    /\ UNCHANGED <<serverVars, http, wire, typingTimeout, envVars>>

\* variant: the submit handler does not emit 'stop typing'
SubmitPacketsNoStop(t) == <<Packet("chat message", DataWith(StringValue(Trim(t))))>>

\* what the submit handler emits for the text of the input field
SubmitPackets(t) ==
    <<Packet("chat message", DataWith(StringValue(Trim(t)))), Packet("stop typing", NoData)>>

RECURSIVE TotalOnWire(_)
TotalOnWire(S) ==
    IF S = {} THEN 0
    ELSE LET c == CHOOSE x \in S : TRUE IN Len(wire[c]) + TotalOnWire(S \ {c})

\* the run takes at most MaxEvents packets, on the wire or received
MaySubmit == TotalReceived(Conn) + TotalOnWire(Conn) + 2 <= MaxEvents

\* messageForm's submit listener, for a text that is not blank on a
\* connected socket
SubmitForm(c, t) ==
    /\ state[c] = "open"
    /\ Trim(t) # <<>>
    /\ MaySubmit
    /\ wire' = [wire EXCEPT ![c] = @ \o SubmitPackets(t)]
    /\ UNCHANGED <<serverVars, http, seen, shown, typingTimeout, envVars>>

\* the server handles the oldest packet the socket of c sent
WireReceive(c) ==
    /\ wire[c] # <<>>
    /\ wire' = [wire EXCEPT ![c] = Tail(@)]
    /\ IF Head(wire[c]).ev = "chat message"
       THEN ChatMessage(c, Head(wire[c]).data)
       ELSE IF Head(wire[c]).ev = "typing"
       THEN Typing(c)
       ELSE StopTyping(c)
    /\ UNCHANGED <<http, seen, shown, typingTimeout, envVars>>

\* a table that earlier sessions left behind
EarlierTables == {<<>>, <<StoredRow(1, 0)>>}

InitPage ==
    /\ state = [c \in Conn |-> "new"]
    /\ session = [c \in Conn |-> NoSession]
    /\ sockUser = [c \in Conn |-> [userId |-> 0, username |-> ""]]
    /\ handlers = [c \in Conn |-> {}]
    /\ inbox = [c \in Conn |-> <<>>]
    /\ received = [c \in Conn |-> <<>>]
    /\ messages \in EarlierTables
    /\ nextId = Len(messages) + 1
    /\ queries = <<>>
    /\ nq = 0
    /\ now = 0
    /\ http = [c \in Conn |-> NoRequest]
    /\ wire = [c \in Conn |-> <<>>]
    /\ seen = [c \in Conn |-> 0]
    /\ shown = [c \in Conn |-> <<>>]
    /\ typingTimeout = [c \in Conn |-> FALSE]
    /\ store = [c \in Conn |-> NoSession]
    /\ broken = {}
    /\ users = RegisteredUsers
    /\ auth = [c \in Conn |-> NoAuth]
    /\ boot = ServerUp
    /\ public = PublicFiles
    /\ nav = [c \in Conn |-> NoNav]

\* the submit path: pages of logged-in users, their sockets and the server
NextSubmit ==
    \/ \E c \in Conn, u \in Users : CheckAuth(c, u)
    \/ \E c \in Conn : PageConnect(c)
    \/ \E c \in Conn, t \in Texts : SubmitForm(c, t)
    \/ \E c \in Conn : WireReceive(c)
    \/ \E i \in 1..MaxEvents : DbInsert(i) /\ UNCHANGED <<pageVars, envVars>>
    \/ \E i \in 1..MaxEvents : DbFail(i) /\ UNCHANGED <<pageVars, envVars>>
    \/ \E i \in 1..MaxEvents : Resume(i) /\ UNCHANGED <<pageVars, envVars>>
    \/ \E c \in Conn : Disconnect(c) /\ UNCHANGED <<pageVars, envVars>>
    \/ Tick /\ UNCHANGED <<pageVars, envVars>>

SpecSubmit == InitPage /\ [][NextSubmit]_vars

\* the messages container: pages that load the history while messages are
\* submitted, stored and broadcast (no statement fails, no socket closes)
NextPage ==
    \/ \E c \in Conn, u \in Users : CheckAuth(c, u)
    \/ \E c \in Conn : PageConnect(c)
    \/ \E c \in Conn : HistoryLoaded(c)
    \/ \E c \in Conn : SocketOn(c)
    \/ \E c \in Conn, t \in Texts : SubmitForm(c, t)
    \/ \E c \in Conn : WireReceive(c)
    \/ \E i \in 1..MaxEvents : DbInsert(i) /\ UNCHANGED <<pageVars, envVars>>
    \/ \E i \in 1..MaxEvents : Resume(i) /\ UNCHANGED <<pageVars, envVars>>
    \/ Tick /\ UNCHANGED <<pageVars, envVars>>
    \/ \E c \in Conn : GetMessages(c) /\ UNCHANGED <<serverVars, wire, seen, shown, typingTimeout, envVars>>
    \/ \E c \in Conn : DbSelect(c) /\ UNCHANGED <<serverVars, wire, seen, shown, typingTimeout, envVars>>
    \/ \E c \in Conn : HttpResume(c) /\ UNCHANGED <<serverVars, wire, seen, shown, typingTimeout, envVars>>

SpecPage == InitPage /\ [][NextPage]_vars

\* ----------------------------------------------------- typing indicator
RECURSIVE TimersPending(_)
TimersPending(S) ==
    IF S = {} THEN 0
    ELSE LET c == CHOOSE x \in S : TRUE
         IN  (IF typingTimeout[c] THEN 1 ELSE 0) + TimersPending(S \ {c})

\* the run takes at most MaxEvents packets: the 'typing' packet of this
\* input and the 'stop typing' of every pending timer still fit
MayType(c) ==
    TotalReceived(Conn) + TotalOnWire(Conn) + 1
        + TimersPending(Conn \ {c}) + 1 <= MaxEvents

\* messageInput's input listener on a connected socket: emit 'typing',
\* clearTimeout, setTimeout(2000)
InputEvent(c) ==
    /\ state[c] = "open"
    /\ MayType(c)
    /\ wire' = [wire EXCEPT ![c] = Append(@, Packet("typing", NoData))]
    /\ typingTimeout' = [typingTimeout EXCEPT ![c] = TRUE]
    /\ UNCHANGED <<serverVars, http, seen, shown, envVars>>

\* the timer set by the input listener fires: emit 'stop typing'
TimeoutFires(c) ==
    /\ typingTimeout[c]
    /\ state[c] = "open"
    /\ typingTimeout' = [typingTimeout EXCEPT ![c] = FALSE]
    /\ wire' = [wire EXCEPT ![c] = Append(@, Packet("stop typing", NoData))]
    /\ UNCHANGED <<serverVars, http, seen, shown, envVars>>

\* the page is left: beforeunload calls socket.disconnect(), which reaches
\* the server after the packets sent before it; the page's timers go with it
Unload(c) ==
    /\ wire[c] = <<>>
    /\ Disconnect(c)
    /\ typingTimeout' = [typingTimeout EXCEPT ![c] = FALSE]
    /\ UNCHANGED <<http, wire, seen, shown, envVars>>

\* pages whose users type and leave
NextTyping ==
    \/ \E c \in Conn, u \in Users : CheckAuth(c, u)
    \/ \E c \in Conn : PageConnect(c)
    \/ \E c \in Conn : InputEvent(c)
    \/ \E c \in Conn : TimeoutFires(c)
    \/ \E c \in Conn : WireReceive(c)
    \/ \E c \in Conn : Unload(c)
    \/ Tick /\ UNCHANGED <<pageVars, envVars>>

\* the server handles every packet it is sent, and a pending timer fires
FairTyping ==
    \A c \in Conn : WF_vars(WireReceive(c)) /\ WF_vars(TimeoutFires(c))

SpecTyping == InitPage /\ [][NextTyping]_vars /\ FairTyping

\* ================================================================ claims
\* the packet a step has just received from connection c, if any
Received(c) == received'[c] # received[c]

IsTextPacket(p) ==
    p.ev = "chat message" /\ p.data.kind = "object" /\ p.data.message.kind = "string"

\* a 'chat message' packet whose text is non-empty after trimming
IsValidPacket(p) == IsTextPacket(p) /\ Trim(p.data.message.text) # <<>>

\* a 'chat message' packet whose text is empty or whitespace only
IsBlankPacket(p) == IsTextPacket(p) /\ Trim(p.data.message.text) = <<>>

RowsWithId(id) == {j \in Indices(messages) : messages[j].id = id}

ChatIds(c) == {k \in Indices(inbox[c]) : inbox[c][k].type = "chat message"}

\* C1: every 'chat message' event delivered to a connection carries the id,
\* author and text of a row that is already in the messages table.
C1_BroadcastAfterPersist ==
    \A c \in Conn : \A k \in ChatIds(c) :
        \E j \in Indices(messages) :
            /\ messages[j].id = inbox[c][k].id
            /\ messages[j].user_id = inbox[c][k].userId
            /\ messages[j].username = inbox[c][k].username
            /\ messages[j].message = inbox[c][k].message

C1_Witness == \E c \in Conn : ChatIds(c) # {}

\* C2: a valid text of at most 1000 characters is issued as one INSERT of the
\* trimmed text under the socket's identity; a successful INSERT adds exactly
\* one row with a fresh id; and when the handler resumes, every connection
\* that is open then, the sender included, gets exactly one event built from
\* that row, and no other connection gets anything.
C2_Submit ==
    \A c \in Conn :
        (Received(c) /\ IsValidPacket(Last(received'[c]))
            /\ TextLen(Trim(Last(received'[c]).data.message.text)) <= 1000)
        => /\ Len(queries') = Len(queries) + 1
           /\ Last(queries').conn = c
           /\ Last(queries').status = "sent"
           /\ Last(queries').message = Trim(Last(received'[c]).data.message.text)
           /\ Last(queries').userId = sockUser[c].userId
           /\ Last(queries').username = sockUser[c].username

C2_Persist ==
    \A i \in Indices(queries) :
        (queries[i].status = "sent" /\ Len(queries') = Len(queries)
            /\ queries'[i].status = "ok")
        => /\ RowsWithId(queries'[i].insertId) = {}
           /\ messages' = Append(messages,
                  [id |-> queries'[i].insertId, user_id |-> queries[i].userId,
                   username |-> queries[i].username, message |-> queries[i].message,
                   timestamp |-> queries[i].timestamp])

C2_Broadcast ==
    \A i \in Indices(queries) :
        (queries[i].status = "ok" /\ queries' = RemoveAt(queries, i))
        => /\ Cardinality(RowsWithId(queries[i].insertId)) = 1
           /\ \A j \in RowsWithId(queries[i].insertId) : \A c \in Conn :
                inbox'[c] =
                    IF state[c] = "open"
                    THEN Append(inbox[c],
                            [type |-> "chat message", id |-> messages[j].id,
                             userId |-> messages[j].user_id,
                             username |-> messages[j].username,
                             message |-> messages[j].message,
                             timestamp |-> queries[i].timestamp])
                    ELSE inbox[c]

C2_Once ==
    /\ \A j, k \in Indices(messages) : messages[j].id = messages[k].id => j = k
    /\ \A c \in Conn : \A j, k \in ChatIds(c) : inbox[c][j].id = inbox[c][k].id => j = k

C2_ValidMessageDelivered ==
    /\ []C2_Once
    /\ [][C2_Submit /\ C2_Persist /\ C2_Broadcast]_vars

C2_Witness ==
    \E c, d \in Conn :
        /\ c # d /\ state[c] = "open" /\ state[d] = "open"
        /\ \E p \in Indices(received[c]) : IsValidPacket(received[c][p])
        /\ \E j \in ChatIds(c), k \in ChatIds(d) :
              /\ inbox[c][j] = inbox[d][k]
              /\ inbox[c][j].userId = sockUser[c].userId
              /\ RowsWithId(inbox[c][j].id) # {}

\* C3: a 'chat message' whose text is empty or whitespace only appends no
\* row, issues no INSERT, and delivers one 'error' event to the sender and
\* nothing to anyone else.
C3_Step ==
    \A c \in Conn :
        (Received(c) /\ IsBlankPacket(Last(received'[c])))
        => /\ messages' = messages
           /\ queries' = queries
           /\ inbox' = [inbox EXCEPT ![c] =
                           Append(@, [type |-> "error", message |-> "Message cannot be empty"])]

C3_BlankRejected == [][C3_Step]_vars

C3_Witness ==
    \E c, d \in Conn :
        /\ c # d /\ state[c] = "open" /\ state[d] = "open"
        /\ \E p \in Indices(received[c]) :
              /\ IsBlankPacket(received[c][p])
              /\ received[c][p].data.message.text # <<>>
        /\ \E k \in Indices(inbox[c]) : inbox[c][k].type = "error"
        /\ messages = <<>>

\* the handshake carried no session, or a session without a userId
Unauth(s) == ~(s.present /\ s.userId # 0)

EventsOfType(c, t) == {k \in Indices(inbox[c]) : inbox[c][k].type = t}

\* C4: a connection whose handshake session is missing or has no userId
\* ends up rejected with no listener and no 'welcome'; the step that rejects
\* it delivers no event to anyone; and it never changes state afterwards, so
\* no 'user left' is ever emitted for it.
C4_State ==
    \A c \in Conn :
        (state[c] # "new" /\ Unauth(session[c]))
        => /\ state[c] = "rejected"
           /\ handlers[c] = {}
           /\ EventsOfType(c, "welcome") = {}

C4_Step ==
    \A c \in Conn :
        /\ (state[c] = "new" /\ state'[c] # "new" /\ Unauth(session'[c])) => inbox' = inbox
        /\ (state[c] # "new" /\ Unauth(session[c])) => state'[c] = state[c]

C4_UnauthenticatedRejected == []C4_State /\ [][C4_Step]_vars

C4_Witness ==
    \E c, d \in Conn :
        /\ state[d] = "open" /\ d < c
        /\ state[c] = "rejected" /\ session[c] = AnonSession

\* C5: a packet received from a connection that failed authentication
\* changes neither the table, nor the pending INSERTs, nor any inbox; and
\* such a connection's inbox stays empty whatever the others do.
C5_State ==
    \A c \in Conn : (state[c] # "new" /\ Unauth(session[c])) => inbox[c] = <<>>

C5_Step ==
    \A c \in Conn :
        (Unauth(session[c]) /\ Received(c))
        => /\ messages' = messages
           /\ queries' = queries
           /\ inbox' = inbox

C5_UnauthenticatedInert == []C5_State /\ [][C5_Step]_vars

C5_Witness ==
    \E c, d \in Conn :
        /\ c < d
        /\ state[c] = "rejected" /\ Len(received[c]) > 0
        /\ state[d] = "open" /\ ChatIds(d) # {}
        /\ inbox[c] = <<>>

\* C6: the step in which connection c becomes open appends 'user joined'
\* with c's username to the inbox of every connection already open, appends
\* 'welcome' to c's inbox only, and leaves every other inbox as it was.
C6_Step ==
    \A c \in Conn :
        (state[c] = "new" /\ state'[c] = "open")
        => \A d \in Conn :
              inbox'[d] =
                  IF d = c
                  THEN Append(inbox[d],
                          [type |-> "welcome", message |-> "Welcome to the chat",
                           username |-> session'[c].username])
                  ELSE IF state[d] = "open"
                  THEN Append(inbox[d],
                          [type |-> "user joined", username |-> session'[c].username,
                           timestamp |-> now])
                  ELSE inbox[d]

C6_JoinedAndWelcome == [][C6_Step]_vars

C6_Witness ==
    \E c, d \in Conn :
        /\ c # d /\ state[c] = "open" /\ state[d] = "open"
        /\ \E k \in EventsOfType(d, "user joined") :
              inbox[d][k].username = sockUser[c].username
        /\ inbox[c] = <<[type |-> "welcome", message |-> "Welcome to the chat",
                         username |-> sockUser[c].username]>>

\* C7: the step in which an open connection c closes appends 'user left'
\* with c's username to the inbox of every connection still open and to no
\* other; once c is closed its inbox never grows again, whatever is emitted
\* to it or broadcast later; and a submit of c that is still pending then
\* can always be completed by its handler.
C7_Step ==
    \A c \in Conn :
        /\ (state[c] = "open" /\ state'[c] = "closed")
           => \A d \in Conn :
                 inbox'[d] =
                     IF d # c /\ state[d] = "open"
                     THEN Append(inbox[d],
                             [type |-> "user left", username |-> sockUser[c].username,
                              timestamp |-> now])
                     ELSE inbox[d]
        /\ state[c] = "closed" => (inbox'[c] = inbox[c] /\ state'[c] = "closed")

\* the handler of a submit whose sender has closed still runs to its end
C7_Settles ==
    \A i \in Indices(queries) :
        (state[queries[i].conn] = "closed" /\ queries[i].status # "sent")
        => ENABLED Resume(i)

C7_LeftAndSilence == []C7_Settles /\ [][C7_Step]_vars

\* a submit of c that settled after c had closed: d saw 'user left', then the message
C7_Witness ==
    \E c, d \in Conn :
        /\ c # d /\ state[c] = "closed" /\ state[d] = "open"
        /\ received[d] = <<>> /\ ChatIds(c) = {}
        /\ \E j \in EventsOfType(d, "user left"), k \in ChatIds(d) :
              j < k /\ inbox[d][k].userId = sockUser[c].userId

ValidPackets(c) == {p \in Indices(received[c]) : IsValidPacket(received[c][p])}

RECURSIVE CountValid(_)
CountValid(S) ==
    IF S = {} THEN 0
    ELSE LET c == CHOOSE x \in S : TRUE
         IN  Cardinality(ValidPackets(c)) + CountValid(S \ {c})

\* c1 and c2 are the only connections that ever authenticated, both are
\* still open and both submitted a valid message; the later of the two had
\* joined before any message was broadcast; every INSERT succeeded and
\* every handler has finished.
BothSubmitted(c1, c2) ==
    /\ c1 # c2 /\ state[c1] = "open" /\ state[c2] = "open"
    /\ \A c3 \in Conn \ {c1, c2} : state[c3] \in {"new", "rejected"}
    /\ ValidPackets(c1) # {} /\ ValidPackets(c2) # {}
    /\ queries = <<>>
    /\ Len(messages) = CountValid(Conn)
    /\ \E j \in EventsOfType(c1, "user joined") : \A k \in ChatIds(c1) : j < k

\* C8: when two connections that are both open submit valid messages, then
\* however the two handlers and INSERTs interleave, the rows get distinct
\* ids that grow in insertion order, and each of the two connections holds
\* exactly one 'chat message' event for every row and no other.
C8_BothDelivered ==
    \A c1, c2 \in Conn :
        BothSubmitted(c1, c2)
        => /\ \A j, k \in Indices(messages) : j < k => messages[j].id < messages[k].id
           /\ \A c \in {c1, c2} :
                /\ Cardinality(ChatIds(c)) = Len(messages)
                /\ \A j \in Indices(messages) :
                      Cardinality({k \in ChatIds(c) :
                                      /\ inbox[c][k].id = messages[j].id
                                      /\ inbox[c][k].message = messages[j].message
                                      /\ inbox[c][k].userId = messages[j].user_id}) = 1

\* the broadcasts came out in the opposite order of the ids: both INSERTs were in flight at once
C8_Witness ==
    \E c1, c2 \in Conn :
        /\ BothSubmitted(c1, c2)
        /\ Len(messages) = 2
        /\ \E j, k \in ChatIds(c2) : j < k /\ inbox[c2][j].id > inbox[c2][k].id

FailedNotice == [type |-> "error", message |-> "Failed to send message"]

\* C9: an INSERT that fails adds no row and emits nothing; when its handler
\* resumes, the sender, if still open, gets one 'Failed to send message'
\* error and nobody else gets anything, no row is added, no new INSERT is
\* issued, and no connection changes state or loses a listener; a failed
\* INSERT never turns into a successful one.
C9_Step ==
    \A i \in Indices(queries) :
        /\ (queries[i].status = "sent" /\ Len(queries') = Len(queries)
               /\ queries'[i].status = "failed")
           => (messages' = messages /\ inbox' = inbox /\ state' = state)
        /\ (queries[i].status = "failed" /\ queries' = RemoveAt(queries, i))
           => /\ messages' = messages /\ nq' = nq
              /\ state' = state /\ handlers' = handlers
              /\ \A d \in Conn :
                    inbox'[d] = IF d = queries[i].conn /\ state[d] = "open"
                                THEN Append(inbox[d], FailedNotice)
                                ELSE inbox[d]
        /\ queries[i].status = "failed"
           => \A k \in Indices(queries') :
                 queries'[k].qid = queries[i].qid => queries'[k] = queries[i]

C9_AppendFailure == [][C9_Step]_vars

\* after the failure notice the same connection submitted again and got its message
C9_Witness ==
    \E c, d \in Conn :
        /\ c # d /\ state[c] = "open" /\ state[d] = "open"
        /\ Cardinality(ValidPackets(c)) = 2 /\ received[d] = <<>>
        /\ Len(messages) = 1
        /\ \E j \in EventsOfType(c, "error"), k \in ChatIds(c) :
              j < k /\ inbox[c][j] = FailedNotice
        /\ EventsOfType(d, "error") = {}

SanitizedText(p) == Substring0(Trim(p.data.message.text), 1000)

\* valid packets, on any connection, whose stored text is t
PacketsWithText(t) ==
    {x \in Conn \X (1..MaxEvents) :
        /\ x[2] \in ValidPackets(x[1])
        /\ SanitizedText(received[x[1]][x[2]]) = t}

\* C10: if one connection sends m1 and then m2 (told apart by their texts,
\* which nothing else sent), the row of m1 has the smaller id and every
\* inbox that holds both events holds m1's first.
C10_OwnMessagesInOrder ==
    \A c \in Conn : \A a, b \in ValidPackets(c) :
        LET ta == SanitizedText(received[c][a])
            tb == SanitizedText(received[c][b])
        IN  (a < b /\ ta # tb
                /\ Cardinality(PacketsWithText(ta)) = 1
                /\ Cardinality(PacketsWithText(tb)) = 1)
            => /\ \A j, k \in Indices(messages) :
                     (messages[j].message = ta /\ messages[k].message = tb)
                     => messages[j].id < messages[k].id
               /\ \A d \in Conn : \A j, k \in ChatIds(d) :
                     (inbox[d][j].message = ta /\ inbox[d][k].message = tb) => j < k

\* m is a prefix of t (both run-length encoded)
RECURSIVE IsPrefix(_, _)
IsPrefix(m, t) ==
    \/ m = <<>>
    \/ /\ t # <<>>
       /\ Head(m).ch = Head(t).ch
       /\ \/ Head(m).n = Head(t).n /\ IsPrefix(Tail(m), Tail(t))
          \/ Head(m).n < Head(t).n /\ Tail(m) = <<>>

\* m is the first 1000 characters of the text t with its outer whitespace removed
IsFirst1000Trimmed(m, t) == TextLen(m) = 1000 /\ IsPrefix(m, Trim(t))

IsLongPacket(p) == IsValidPacket(p) /\ TextLen(Trim(p.data.message.text)) > 1000

\* C11: a text that is longer than 1000 characters after trimming is issued
\* as an INSERT of exactly the first 1000 characters of the trimmed text and
\* the step delivers no event (no error to the sender); the INSERT stores
\* that body unchanged; and the broadcast that follows carries that same
\* body to every open connection and gives nobody anything else.
C11_Submit ==
    \A c \in Conn :
        (Received(c) /\ IsLongPacket(Last(received'[c])))
        => /\ Len(queries') = Len(queries) + 1
           /\ Last(queries').conn = c
           /\ IsFirst1000Trimmed(Last(queries').message, Last(received'[c]).data.message.text)
           /\ inbox' = inbox

C11_Persist ==
    \A i \in Indices(queries) :
        (queries[i].status = "sent" /\ Len(queries') = Len(queries)
            /\ queries'[i].status = "ok")
        => /\ Len(messages') = Len(messages) + 1
           /\ Last(messages').message = queries[i].message
           /\ Last(messages').id = queries'[i].insertId

C11_Broadcast ==
    \A i \in Indices(queries) :
        (queries[i].status = "ok" /\ queries' = RemoveAt(queries, i))
        => \A c \in Conn :
              IF state[c] = "open"
              THEN /\ Len(inbox'[c]) = Len(inbox[c]) + 1
                   /\ SubSeq(inbox'[c], 1, Len(inbox[c])) = inbox[c]
                   /\ Last(inbox'[c]).type = "chat message"
                   /\ Last(inbox'[c]).id = queries[i].insertId
                   /\ Last(inbox'[c]).message = queries[i].message
              ELSE inbox'[c] = inbox[c]

C11_LongTextTruncated == [][C11_Submit /\ C11_Persist /\ C11_Broadcast]_vars

\* a text of 1005 characters after trimming reached the table and another
\* connection as its first 1000 characters, and the sender got no error
C11_Witness ==
    \E c, d \in Conn :
        /\ c # d /\ state[c] = "open" /\ state[d] = "open"
        /\ Len(received[c]) = 1 /\ received[d] = <<>>
        /\ received[c][1].data.message.text =
              <<Run("ws", 3), Run("a", 998), Run("b", 3), Run("ws", 2)>>
        /\ Len(messages) = 1
        /\ messages[1].message = <<Run("a", 998), Run("b", 2)>>
        /\ \E k \in ChatIds(d) : inbox[d][k].message = <<Run("a", 998), Run("b", 2)>>
        /\ \E k \in ChatIds(c) : inbox[c][k].message = <<Run("a", 998), Run("b", 2)>>
        /\ EventsOfType(c, "error") = {}

IsTypingPacket(p) == p.ev \in {"typing", "stop typing"}

\* the event the server forwards for a typing signal of the given name
TypingNotice(ev, name) ==
    [type |-> IF ev = "typing" THEN "user typing" ELSE "user stop typing",
     username |-> name]

\* C12: the step in which the server receives 'typing' or 'stop typing' from
\* an open connection c appends the matching notice, with c's username, to
\* the inbox of every other open connection, and leaves c's own inbox and
\* the inbox of every connection that is not open as they were.
C12_Step ==
    \A c \in Conn :
        (state[c] = "open" /\ Received(c) /\ IsTypingPacket(Last(received'[c])))
        => \A d \in Conn :
              inbox'[d] =
                  IF d # c /\ state[d] = "open"
                  THEN Append(inbox[d],
                          TypingNotice(Last(received'[c]).ev, sockUser[c].username))
                  ELSE inbox[d]

C12_TypingExceptSender == [][C12_Step]_vars

\* c signalled typing and then stop typing: d holds both notices, c neither
C12_Witness ==
    \E c, d \in Conn :
        /\ c # d /\ state[c] = "open" /\ state[d] = "open"
        /\ received[d] = <<>>
        /\ received[c] = <<Packet("typing", NoData), Packet("stop typing", NoData)>>
        /\ \E j \in EventsOfType(d, "user typing"), k \in EventsOfType(d, "user stop typing") :
              /\ j < k
              /\ inbox[d][j].username = sockUser[c].username
              /\ inbox[d][k].username = sockUser[c].username
        /\ EventsOfType(c, "user typing") = {}
        /\ EventsOfType(c, "user stop typing") = {}

\* the events a step adds to the inbox of d
NewEvents(d) == SubSeq(inbox'[d], Len(inbox[d]) + 1, Len(inbox'[d]))

GetsError(d) == \E k \in Indices(NewEvents(d)) : NewEvents(d)[k].type = "error"

\* the step is the end of the handler of a submit of d whose INSERT failed
FailedSubmitEnds(d) ==
    \E i \in Indices(queries) :
        /\ queries[i].conn = d /\ queries[i].status = "failed"
        /\ queries' = RemoveAt(queries, i)

\* the step belongs to a submit of c: its packet arrives, its INSERT
\* succeeds or fails, or its handler ends
SubmitStep(c) ==
    \/ Received(c) /\ Last(received'[c]).ev = "chat message"
    \/ \E i \in Indices(queries) :
          /\ queries[i].conn = c
          /\ \/ queries' = RemoveAt(queries, i)
             \/ Len(queries') = Len(queries) /\ queries'[i] # queries[i]

\* C19: a step adds an 'error' event to a connection's inbox only if it
\* received a 'chat message' packet from that very connection or ended the
\* handler of that connection's failed submit; and no step of a submit,
\* whatever its outcome, changes the state of any connection or removes a
\* listener.
C19_Step ==
    /\ \A d \in Conn :
          GetsError(d)
          => \/ Received(d) /\ Last(received'[d]).ev = "chat message"
             \/ FailedSubmitEnds(d)
    /\ \A c \in Conn :
          SubmitStep(c) => (state' = state /\ handlers' = handlers)

C19_ErrorsUnicast == [][C19_Step]_vars

\* a malformed payload and then a failed INSERT: two errors for the sender,
\* none for the other connection, and the sender is still open
C19_Witness ==
    \E c, d \in Conn :
        /\ c # d /\ state[c] = "open" /\ state[d] = "open"
        /\ received[d] = <<>>
        /\ Len(received[c]) = 2
        /\ received[c][1] = Packet("chat message", NoData)
        /\ IsValidPacket(received[c][2])
        /\ queries = <<>> /\ messages = <<>>
        /\ Cardinality(EventsOfType(c, "error")) = 2
        /\ EventsOfType(d, "error") = {}

\* the SELECT of the messages route that the request of c has issued, if any
MessageCalls(c) == {k \in Indices(http[c].calls) : http[c].calls[k].sql = "select messages"}

\* rows is sorted by time, oldest first
Ascending(rows) == \A j, k \in Indices(rows) : j < k => rows[j].timestamp <= rows[k].timestamp

\* rows holds the n newest rows of the table: n different rows of it, and no
\* row left out is newer than one of them
NewestOf(rows, table, n) ==
    /\ Len(rows) = n
    /\ \A j \in Indices(rows) : \E k \in Indices(table) : rows[j] = table[k]
    /\ \A j, k \in Indices(rows) : j # k => rows[j].id # rows[k].id
    /\ \A k \in Indices(table) :
          (\A j \in Indices(rows) : rows[j].id # table[k].id)
          => \A j \in Indices(rows) : table[k].timestamp <= rows[j].timestamp

\* C16: a history request with offset 0 that is answered 200 while the table
\* holds more rows than its limit returns the `limit` newest rows, oldest
\* of them first.
C16_MostRecentAscending ==
    \A c \in Conn :
        (http[c].pc = "responded" /\ http[c].route = "/messages" /\ http[c].status = 200)
        => \A k \in MessageCalls(c) :
              (http[c].calls[k].offset = 0 /\ Len(messages) > http[c].calls[k].limit)
              => /\ Ascending(http[c].rows)
                 /\ NewestOf(http[c].rows, messages, http[c].calls[k].limit)

\* the limit strings of LimitParams that are empty or do not start, after
\* whitespace and a sign, with a number other than zero
NoNonZeroNumber(q) ==
    \/ ~q.present
    \/ q.chars \in {<<>>, <<"a", "b">>, <<"0">>, <<"-", "0">>}

\* C17: whatever the limit string of the request, the limit of the SELECT
\* it issues is an integer from 1 to 100, and it is 50 when the parameter is
\* absent or does not parse to a number other than zero.
C17_LimitClamped ==
    \A c \in Conn : \A k \in MessageCalls(c) :
        /\ http[c].calls[k].limit \in 1..100
        /\ NoNonZeroNumber(http[c].limit) => http[c].calls[k].limit = 50

\* limit=-3 reached the store as 1
C17_Witness ==
    \E c \in Conn :
        /\ http[c].limit = QString(<<"-", "3">>)
        /\ MessageCalls(c) # {}
        /\ \A k \in MessageCalls(c) : http[c].calls[k].limit = 1

\* C18: whatever the offset string of the request, the offset of the SELECT
\* it issues is an integer not below 0.
C18_OffsetNonNegative ==
    \A c \in Conn : \A k \in MessageCalls(c) : http[c].calls[k].offset >= 0

\* C20: a request to /messages, /user or /stats whose session is missing or
\* holds no userId is answered 401 by the middleware: it issues no store
\* query and its response carries no rows, no user and no statistics.
C20_UnauthenticatedGets401 ==
    \A c \in Conn :
        (http[c].pc \notin {"none", "sent"} /\ Unauth(http[c].session))
        => /\ http[c].pc = "responded"
           /\ http[c].status = 401
           /\ http[c].calls = <<>>
           /\ http[c].rows = <<>>
           /\ http[c].user = [id |-> 0, username |-> ""]
           /\ http[c].stats = [totalMessages |-> 0, totalUsers |-> 0]

\* a request for the history of a table that holds rows, made with a session
\* that has no userId, was answered 401
C20_Witness ==
    \E c \in Conn :
        /\ http[c].pc = "responded" /\ http[c].route = "/messages"
        /\ http[c].session = AnonSession
        /\ http[c].status = 401
        /\ Len(messages) > 0

\* everything the socket of page c has emitted, in order
Sent(c) == received[c] \o wire[c]

GetsStopTyping(d) ==
    \E k \in Indices(NewEvents(d)) : NewEvents(d)[k].type = "user stop typing"

C13_ClientSendsStop ==
    \A c \in Conn : \A k \in Indices(Sent(c)) :
        Sent(c)[k].ev = "chat message"
        => /\ k + 1 <= Len(Sent(c))
           /\ Sent(c)[k + 1].ev = "stop typing"

C13_Step ==
    /\ \A c \in Conn :
          (state[c] = "open" /\ Received(c) /\ Last(received'[c]).ev = "stop typing")
          => \A d \in Conn :
                inbox'[d] =
                    IF d # c /\ state[d] = "open"
                    THEN Append(inbox[d],
                            [type |-> "user stop typing", username |-> sockUser[c].username])
                    ELSE inbox[d]
    /\ \A d \in Conn :
          GetsStopTyping(d)
          => \E c \in Conn \ {d} : Received(c) /\ Last(received'[c]).ev = "stop typing"

DistinctIds(list) == \A j, k \in Indices(list) : list[j].id = list[k].id => j = k

\* C14: on a page that opened its socket and fetched the history, every
\* message of the history stands above every live message, whatever the
\* order in which the history response and the live events arrived (pages
\* that show a message twice are left to C15).
C14_HistoryBeforeLive ==
    \A c \in Conn :
        DistinctIds(shown[c])
        => \A j, k \in Indices(shown[c]) :
              j < k => ~(shown[c][j].via = "live" /\ shown[c][k].via = "history")

\* C15: no page shows the same message id twice.
C15_NoDuplicateIds == \A c \in Conn : DistinctIds(shown[c])

\* ------------------------------------------------------------------ C21
\* the query whose handler takes up again in this step
Settling(i) ==
    /\ i \in Indices(queries)
    /\ queries[i].status # "sent"
    /\ queries' = RemoveAt(queries, i)
    /\ nq' = nq /\ received' = received /\ state' = state

\* the 'chat message' event the server builds for a query
ChatOf(q) ==
    [type |-> "chat message", id |-> q.insertId, userId |-> q.userId,
     username |-> q.username, message |-> q.message, timestamp |-> q.timestamp]

QueryIds(qs, c) == {qs[i].qid : i \in {j \in Indices(qs) : qs[j].conn = c}}

\* C21 as stated: once a connection has closed, no event is emitted on its
\* behalf any more; in particular no step taken after its close (hence
\* after its 'user left' went out) broadcasts a chat message it authored.
C21_NothingAfterLeft ==
    [][\A c \in Conn : state[c] = "closed"
          => ~ \E i \in Indices(queries) :
                 /\ Settling(i) /\ queries[i].conn = c
                 /\ \E d \in Conn : NewEvents(d) # <<>>]_vars

\* a step taken while c is closed
C21_Step ==
    \A c \in Conn : state[c] = "closed" =>
        /\ state'[c] = "closed"
        /\ received'[c] = received[c]
        /\ inbox'[c] = inbox[c]
        /\ QueryIds(queries', c) \subseteq QueryIds(queries, c)
        /\ (\E d \in Conn : NewEvents(d) # <<>>)
           => \/ \E c2 \in Conn \ {c} :
                    received'[c2] # received[c2] \/ state'[c2] # state[c2]
              \/ \E i \in Indices(queries) :
                    /\ Settling(i)
                    /\ queries[i].conn = c
                       => /\ queries[i].status = "ok"
                          /\ \A d \in Conn :
                                NewEvents(d) \in {<<>>, <<ChatOf(queries[i])>>}

\* C21, amended: a closed connection stays closed, no event of it is
\* accepted, nothing is delivered to it and no new submit is started for
\* it; the only event still emitted on its behalf is the chat message of a
\* submit that was already awaiting its INSERT when it closed, and that one
\* is broadcast after its 'user left'.
C21_ClosedIsTerminal == [][C21_Step]_vars

\* c closed with its INSERT in flight; the row was stored and the remaining
\* connection got 'user left' and then, as its last event, c's message
C21_Witness ==
    \E c, d \in Conn :
        /\ c # d /\ state[c] = "closed" /\ state[d] = "open"
        /\ queries = <<>> /\ Len(messages) = 1 /\ Len(received[c]) = 1
        /\ Len(inbox[d]) >= 2
        /\ inbox[d][Len(inbox[d]) - 1].type = "user left"
        /\ Last(inbox[d]).type = "chat message"
        /\ Last(inbox[d]).id = messages[1].id
        /\ ChatIds(c) = {}

\* ------------------------------------------------------------------ C22
\* the submits whose sender closed before their handler finished
Orphans == {i \in Indices(queries) : state[queries[i].conn] = "closed"}

\* the INSERT of a closed sender can still be executed, and its handler can
\* still take up again: no query is left behind
C22_Completes ==
    \A i \in Orphans :
        IF queries[i].status = "sent" THEN ENABLED DbInsert(i) ELSE ENABLED Resume(i)

C22_Step ==
    \A i \in Orphans :
        LET q == queries[i] IN
        /\ (q.status = "sent" /\ Len(queries') = Len(queries) /\ queries'[i].status = "ok")
           => /\ Len(messages') = Len(messages) + 1
              /\ Last(messages').user_id = q.userId
              /\ Last(messages').message = q.message
              /\ queries'[i].insertId = Last(messages').id
              /\ inbox' = inbox
        /\ Settling(i)
           => /\ \A d \in Conn :
                    inbox'[d] = IF q.status = "ok" /\ state[d] = "open"
                                THEN Append(inbox[d], ChatOf(q))
                                ELSE inbox[d]
              /\ messages' = messages
              /\ \A j \in Indices(queries') : queries'[j].qid # q.qid

\* C22: when a connection closes while its submit awaits the INSERT, the
\* INSERT can still complete and stores the row; when it has succeeded the
\* handler broadcasts the chat message to every connection still open; the
\* closed sender gets nothing, no error is emitted to anyone, and the query
\* leaves the list of pending ones.
C22_InFlightSubmitCompletes == []C22_Completes /\ [][C22_Step]_vars

\* c submitted, closed before the INSERT ran, and the other connection, which
\* sent nothing itself, holds the message c wrote, as the table does
C22_Witness ==
    \E c, d \in Conn :
        /\ c # d /\ state[c] = "closed" /\ state[d] = "open"
        /\ received[d] = <<>> /\ queries = <<>>
        /\ \E p \in ValidPackets(c), k \in ChatIds(d), j \in EventsOfType(d, "user left") :
              /\ j < k
              /\ inbox[d][k].message = SanitizedText(received[c][p])
              /\ RowsWithId(inbox[d][k].id) # {}
        /\ EventsOfType(c, "error") = {}

\* ------------------------------------------------------------------ C23
\* a body as the validation is meant to leave it
WellFormedBody(m) == m # <<>> /\ TextLen(m) <= 1000 /\ Trim(m) = m

Awaited == {i \in Indices(queries) : queries[i].status = "sent"}

\* whatever one connection's INSERT does, the others are not held up
C24_OthersEnabled ==
    \A i \in Awaited :
        /\ \A j \in Indices(queries) \ {i} :
              queries[j].conn # queries[i].conn
              => IF queries[j].status = "sent"
                 THEN ENABLED DbInsert(j)
                 ELSE ENABLED Resume(j)
        /\ \A d \in Conn \ {queries[i].conn} :
              (state[d] = "open" /\ MayReceive)
              => \A t \in Texts : Trim(t) # <<>> => ENABLED ChatMessage(d, DataWith(StringValue(t)))

\* a submit of another connection settles while query i stays unanswered
C24_Step ==
    \A i \in Awaited, j \in Indices(queries) :
        ( /\ queries[j].conn # queries[i].conn
          /\ Settling(j) /\ queries[j].status = "ok" )
        => /\ \A d \in Conn :
                 inbox'[d] = IF state[d] = "open"
                             THEN Append(inbox[d], ChatOf(queries[j]))
                             ELSE inbox[d]
           /\ RowsWithId(queries[j].insertId) # {}
           /\ \E k \in Indices(queries') :
                 queries'[k].qid = queries[i].qid /\ queries'[k].status = "sent"

\* C24: while the INSERT of one connection's submit stays unanswered, every
\* other open connection can still submit, its INSERT can run and its
\* handler can finish; the message is then stored and broadcast to every
\* open connection, the waiting one included, and only the unanswered
\* submit stays pending.
C24_HungAppendBlocksNobody == []C24_OthersEnabled /\ [][C24_Step]_vars

\* c submitted first and its INSERT is still unanswered; d submitted after
\* it, and d's message is in the table and in both inboxes
C24_Witness ==
    \E c, d \in Conn :
        /\ c # d /\ state[c] = "open" /\ state[d] = "open"
        /\ Len(queries) = 1 /\ queries[1].conn = c
        /\ queries[1].status = "sent" /\ queries[1].qid = 1
        /\ Len(messages) = 1 /\ messages[1].user_id = sockUser[d].userId
        /\ sockUser[c].userId # sockUser[d].userId
        /\ \E k \in ChatIds(c) : inbox[c][k].id = messages[1].id
        /\ \E k \in ChatIds(d) : inbox[d][k].id = messages[1].id

\* ------------------------------------------------------------------ C27
\* the open connections that belong to the user with this id
ConnsOfUser(u) == {d \in Conn : state[d] = "open" /\ sockUser[d].userId = u}

C27_Step ==
    \A c \in Conn :
        /\ (state[c] = "new" /\ state'[c] = "open")
           => \A d \in ConnsOfUser(sockUser'[c].userId) :
                 /\ inbox'[d] = Append(inbox[d],
                                   [type |-> "user joined", username |-> sockUser[d].username,
                                    timestamp |-> now])
                 /\ state'[d] = "open"
        /\ (state[c] = "open" /\ state'[c] = "closed")
           => /\ \A d \in ConnsOfUser(sockUser[c].userId) \ {c} :
                    /\ inbox'[d] = Append(inbox[d],
                                      [type |-> "user left", username |-> sockUser[d].username,
                                       timestamp |-> now])
                    /\ state'[d] = "open"
              /\ \A e \in Conn \ {c} :
                    state[e] = "open" => Len(inbox'[e]) = Len(inbox[e]) + 1
                                         /\ Last(inbox'[e]).type = "user left"

\* C27: connections are never merged by identity. When a user who already
\* has an open connection opens a second one, the first receives
\* 'user joined' with the user's own name and stays open; when the second
\* closes, 'user left' with that name goes to the first, as it goes to
\* every other open connection.
C27_NoDedupByIdentity == [][C27_Step]_vars

\* the same user opened two connections; the second closed again and the
\* first, still open, was told that its own user joined and left
C27_Witness ==
    \E c, d \in Conn :
        /\ c # d /\ state[c] = "closed" /\ state[d] = "open"
        /\ sockUser[c].userId = sockUser[d].userId
        /\ \E j \in EventsOfType(d, "user joined"), k \in EventsOfType(d, "user left") :
              /\ j < k
              /\ inbox[d][j].username = sockUser[d].username
              /\ inbox[d][k].username = sockUser[d].username

\* ------------------------------------------------------------------ C28
\* a row or a pending INSERT stems from a valid 'chat message' packet of a
\* connection of its author
FromValidPacket(userId, text) ==
    \E c \in Conn : /\ sockUser[c].userId = userId
                    /\ \E p \in ValidPackets(c) : SanitizedText(received[c][p]) = text

C28_OnlyValidSubmits ==
    /\ \A j \in Indices(messages) : FromValidPacket(messages[j].user_id, messages[j].message)
    /\ \A i \in Indices(queries) : FromValidPacket(queries[i].userId, queries[i].message)
    /\ Len(messages) + Cardinality({i \in Indices(queries) : queries[i].status # "ok"})
       <= CountValid(Conn)

C28_Step ==
    \* the rows that exist are neither changed nor deleted
    /\ Len(messages') >= Len(messages)
    /\ SubSeq(messages', 1, Len(messages)) = messages
    \* connect, disconnect and every inbound packet leave the table alone
    /\ (state' # state \/ \E c \in Conn : Received(c)) => messages' = messages
    \* typing signals and invalid chat messages do not start an INSERT either
    /\ (state' # state
        \/ \E c \in Conn : Received(c) /\ ~IsValidPacket(Last(received'[c])))
       => queries' = queries
    \* a row is appended by the INSERT of a pending submit, one at a time
    /\ messages' # messages
       => \E i \in Awaited :
             /\ Len(messages') = Len(messages) + 1
             /\ Last(messages').message = queries[i].message
             /\ Last(messages').user_id = queries[i].userId
             /\ queries'[i].status = "ok"

\* C28: connect, disconnect, typing and stop typing leave the messages table
\* unchanged; a row is appended only by the INSERT that a valid chat message
\* started, and no step changes or deletes a row that exists.
C28_StoreOnlyAppended == []C28_OnlyValidSubmits /\ [][C28_Step]_vars

\* one connection sent a typing signal and closed, the other submitted one
\* valid message: the table holds that one row
C28_Witness ==
    \E c, d \in Conn :
        /\ c # d /\ state[c] = "closed" /\ state[d] = "open"
        /\ Len(received[c]) = 1 /\ IsTypingPacket(received[c][1])
        /\ Len(received[d]) = 1 /\ IsValidPacket(received[d][1])
        /\ queries = <<>>
        /\ Len(messages) = 1 /\ messages[1].message = SanitizedText(received[d][1])

\* ------------------------------------------------------------------ C30
\* a 'chat message' packet without a data object, or whose message field is
\* not a string
IsMalformedPacket(p) ==
    /\ p.ev = "chat message"
    /\ p.data.kind # "object" \/ p.data.message.kind # "string"

\* the notice the handler answers it with: destructuring undefined or null
\* and calling trim on a truthy non-string raise a TypeError that the catch
\* block reports; a missing or falsy message fails the validation
MalformedNotice(p) ==
    [type |-> "error",
     message |-> IF p.data.kind \in {"undefined", "null"}
                    \/ (p.data.kind = "object" /\ p.data.message.kind = "number")
                 THEN "Failed to send message"
                 ELSE "Message cannot be empty"]

C30_Step ==
    \A c \in Conn :
        (Received(c) /\ IsMalformedPacket(Last(received'[c])))
        => /\ messages' = messages /\ nextId' = nextId
           /\ queries' = queries /\ nq' = nq
           /\ inbox'[c] = Append(inbox[c], MalformedNotice(Last(received'[c])))
           /\ \A d \in Conn \ {c} : inbox'[d] = inbox[d]
           /\ state' = state /\ handlers' = handlers

\* the connection is still served after it
C30_StillServed ==
    \A c \in Conn :
        (state[c] = "open" /\ MayReceive /\ received[c] # <<>>
         /\ IsMalformedPacket(Last(received[c])))
        => ENABLED ChatMessage(c, DataWith(StringValue(<<Run("b", 1)>>)))

\* C30: a chat message whose payload has no data object or no string in its
\* message field stores nothing, starts no INSERT and broadcasts nothing;
\* its sender gets exactly one error event and nobody else gets anything;
\* the connection stays open with its listeners and its next message is
\* handled as usual.
C30_MalformedRejected == []C30_StillServed /\ [][C30_Step]_vars

\* a payload without data and one with a number as message: two errors for
\* the sender, nothing for the other connection, nothing stored
C30_Witness ==
    \E c, d \in Conn :
        /\ c # d /\ state[c] = "open" /\ state[d] = "open"
        /\ Len(received[c]) = 2 /\ received[d] = <<>>
        /\ received[c][1].data = NoData
        /\ received[c][2].data = DataWith(NumberValue)
        /\ Cardinality(EventsOfType(c, "error")) = 2
        /\ EventsOfType(d, "error") = {} /\ ChatIds(d) = {}
        /\ messages = <<>> /\ queries = <<>>

\* ------------------------------------------------------------------ C25
\* userId and username of a session
IdentityOf(s) == [userId |-> s.userId, username |-> s.username]

\* every new event of the step names this user
AllNewEventsName(name) ==
    \A d \in Conn : \A k \in Indices(NewEvents(d)) : NewEvents(d)[k].username = name

C25_Step ==
    \A c \in Conn :
        \* the identity is read from the session at the handshake
        /\ (state[c] = "new" /\ state'[c] = "open")
           => /\ sockUser'[c] = IdentityOf(store[c])
              /\ AllNewEventsName(store[c].username)
        \* and stays what it is, whatever happens to the session afterwards
        /\ state[c] \in {"open", "closed"} => sockUser'[c] = sockUser[c]
        \* typing, the INSERT of a chat message and 'user left' carry it
        /\ (Received(c) /\ IsTypingPacket(Last(received'[c])))
           => AllNewEventsName(sockUser[c].username)
        /\ (Received(c) /\ IsValidPacket(Last(received'[c])))
           => /\ Len(queries') = Len(queries) + 1
              /\ Last(queries').conn = c
              /\ Last(queries').userId = sockUser[c].userId
              /\ Last(queries').username = sockUser[c].username
        /\ (state[c] = "open" /\ state'[c] = "closed")
           => AllNewEventsName(sockUser[c].username)

\* rows and chat messages carry the identity of the connection that submitted
C25_Carried ==
    /\ \A i \in Indices(queries) :
          /\ queries[i].userId = sockUser[queries[i].conn].userId
          /\ queries[i].username = sockUser[queries[i].conn].username
    /\ \A j \in Indices(messages) :
          \E c \in Conn : /\ ValidPackets(c) # {}
                          /\ messages[j].user_id = sockUser[c].userId
                          /\ messages[j].username = sockUser[c].username
    /\ \A d \in Conn : \A k \in ChatIds(d) :
          \E j \in RowsWithId(inbox[d][k].id) :
              /\ inbox[d][k].userId = messages[j].user_id
              /\ inbox[d][k].username = messages[j].username

\* C25: the userId and username of a connection are those of the session at
\* the handshake and never change afterwards; 'user joined', 'user left',
\* the typing events, the INSERT of a chat message, its row and its
\* 'chat message' event all carry them, also when the session has been
\* destroyed or belongs to another user by then.
C25_IdentityFixedAtHandshake == []C25_Carried /\ [][C25_Step]_vars

\* the browser of c has logged in as somebody else since the handshake, and
\* a row and a pending INSERT of c carry the identity of the handshake
C25_Witness ==
    \E c \in Conn :
        /\ state[c] = "open"
        /\ store[c].present /\ store[c].userId # sockUser[c].userId
        /\ Len(received[c]) = 2
        /\ Len(messages) = 1 /\ messages[1].user_id = sockUser[c].userId
        /\ Len(queries) = 1 /\ queries[1].conn = c
        /\ queries[1].username = sockUser[c].username
        /\ queries[1].username # store[c].username

\* ------------------------------------------------------------------ C26
\* a step that changes what the store holds for the browser of c
SessionStep(c) == store'[c] # store[c]

C26_Step ==
    \A c \in Conn :
        \* logging out, expiry and logging in leave every socket as it is
        /\ SessionStep(c)
           => /\ state' = state /\ handlers' = handlers /\ sockUser' = sockUser
              /\ inbox' = inbox /\ queries' = queries /\ received' = received
        \* a connection is closed by the step that ends its transport only:
        \* the others are told, the session is not involved
        /\ (state[c] = "open" /\ state'[c] = "closed")
           => /\ store' = store
              /\ \A d \in Conn \ {c} : state'[d] = state[d]
        \* a valid message of a connection without a session is taken
        /\ (Received(c) /\ ~store[c].present /\ IsValidPacket(Last(received'[c])))
           => /\ Len(queries') = Len(queries) + 1
              /\ Last(queries').conn = c
              /\ Last(queries').userId = sockUser[c].userId
              /\ inbox' = inbox

\* a connection whose session is gone is still served
C26_StillListening ==
    \A c \in Conn :
        (state[c] = "open" /\ ~store[c].present)
        => /\ handlers[c] = {"chat message", "typing", "stop typing", "disconnect", "error"}
           /\ MayReceive => ENABLED ChatMessage(c, DataWith(StringValue(<<Run("b", 1)>>)))

\* C26: the server closes an authenticated connection only when its
\* transport disconnects. Logging out (or the expiry of the session) changes
\* no connection: the socket stays open with its listeners, nobody is told
\* that the user left, and a message it submits afterwards is accepted and
\* handed to the INSERT under the identity of the handshake.
C26_LogoutKeepsSocket == []C26_StillListening /\ [][C26_Step]_vars

\* the session of c is gone, c is open and holds the 'chat message' event of
\* both messages it has submitted
C26_Witness ==
    \E c \in Conn :
        /\ state[c] = "open" /\ ~store[c].present
        /\ Len(received[c]) = 2 /\ queries = <<>>
        /\ Len(messages) = 2
        /\ \A j \in Indices(messages) :
              /\ messages[j].user_id = sockUser[c].userId
              /\ \E k \in ChatIds(c) : inbox[c][k].id = messages[j].id

\* ------------------------------------------------------------------ C29
\* the connections a write can reach
Reachable(d) == state[d] = "open" /\ d \notin broken

C29_Step ==
    \A i \in Indices(queries) :
        (Settling(i) /\ queries[i].status = "ok")
        => /\ \A d \in Conn :
                 inbox'[d] = IF Reachable(d)
                             THEN Append(inbox[d], ChatOf(queries[i]))
                             ELSE inbox[d]
           /\ messages' = messages
           /\ RowsWithId(queries[i].insertId) # {}
           /\ state' = state /\ handlers' = handlers

\* the server can still take the failed connection out of the namespace
C29_Deregistered == \A c \in broken : state[c] = "open" => ENABLED Disconnect(c)

C31_IdOrderIsTimeOrder ==
    \A j, k \in Indices(messages) :
        messages[j].id < messages[k].id => messages[j].timestamp <= messages[k].timestamp

\* ------------------------------------------------------------------ C32
\* the new events of the step that have this type, over all inboxes
NewOfType(d, t) == {k \in Indices(NewEvents(d)) : NewEvents(d)[k].type = t}

\* connections other than d that authenticated / that have closed since
EverOpen(d) == {c \in Conn \ {d} : state[c] \in {"open", "closed"}}
Gone(d) == {c \in Conn \ {d} : state[c] = "closed"}

C32_Step ==
    /\ \A c \in Conn :
          \* a connection authenticates once and closes once, in this order
          /\ state'[c] # state[c]
             => \/ state[c] = "new" /\ state'[c] \in {"open", "rejected"}
                \/ state[c] = "open" /\ state'[c] = "closed"
          \* 'user joined' goes out in the step that authenticates it
          /\ (state[c] = "new" /\ state'[c] = "open")
             => \A d \in Conn :
                   /\ NewOfType(d, "user left") = {}
                   /\ Cardinality(NewOfType(d, "user joined")) =
                         IF d # c /\ state[d] = "open" THEN 1 ELSE 0
          \* 'user left' goes out in the step that closes it
          /\ (state[c] = "open" /\ state'[c] = "closed")
             => \A d \in Conn :
                   /\ NewOfType(d, "user joined") = {}
                   /\ Cardinality(NewOfType(d, "user left")) =
                         IF d # c /\ state[d] = "open" THEN 1 ELSE 0
    \* and in no other step
    /\ state' = state
       => \A d \in Conn : NewOfType(d, "user joined") = {} /\ NewOfType(d, "user left") = {}

\* what a connection has been told never exceeds what has happened
C32_Counts ==
    \A d \in Conn :
        /\ Cardinality(EventsOfType(d, "user joined")) <= Cardinality(EverOpen(d))
        /\ Cardinality(EventsOfType(d, "user left")) <= Cardinality(Gone(d))
        /\ state[d] = "rejected" => inbox[d] = <<>>

\* C32: a connection authenticates at most once and closes at most once,
\* in this order. The step that authenticates it broadcasts exactly one
\* 'user joined', the step that closes it broadcasts exactly one
\* 'user left' (so a closed connection has had its 'user left' broadcast),
\* and no other step emits either event.
C32_OneJoinedOneLeft == []C32_Counts /\ [][C32_Step]_vars

\* c joined and left while d was open: d holds one 'user joined' and, after
\* it, one 'user left'
C32_Witness ==
    \E c, d \in Conn :
        /\ c # d /\ state[c] = "closed" /\ state[d] = "open"
        /\ Cardinality(EventsOfType(d, "user joined")) = 1
        /\ Cardinality(EventsOfType(d, "user left")) = 1
        /\ \A j \in EventsOfType(d, "user joined"), k \in EventsOfType(d, "user left") : j < k

\* ------------------------------------------------------------------ C33
\* the open connection d has been told that the user of this name is
\* typing and has not been told since that they stopped
ShowsTyping(d, name) ==
    /\ state[d] = "open"
    /\ \E k \in EventsOfType(d, "user typing") :
          /\ inbox[d][k].username = name
          /\ \A j \in EventsOfType(d, "user stop typing") :
                j > k => inbox[d][j].username # name

\* C33: every 'user typing' broadcast for a user is eventually followed by
\* a 'user stop typing' broadcast for that user, also when the user's
\* connection closes while typing: no open connection is left with an
\* unanswered 'user typing'.
C33_TypingEventuallyStopped ==
    \A d \in Conn : \A u \in Users :
        ShowsTyping(d, UserName(u)) ~> ~ShowsTyping(d, UserName(u))

\* ------------------------------------------------------------------ C34
\* the request of browser c is answered in this step
Answered(c) == auth[c].pc \notin {"none", "responded"} /\ auth'[c].pc = "responded"
AnsweredAtOnce(c) == auth[c].pc = "none" /\ auth'[c].pc = "responded"

\* the account the login request of c names, with the password it sent
MatchingAccounts(r) ==
    {j \in Indices(users) :
        /\ r.username.present /\ r.username.text # ""
        /\ r.password.present /\ r.password.text # ""
        /\ users[j].username = r.username.text
        /\ users[j].password.digest = <<users[j].password.salt, r.password.text>>}

C34_Step ==
    \A c \in Conn :
        \* a login that is answered with success fills the session from the
        \* account with that name and password
        /\ ((Answered(c) \/ AnsweredAtOnce(c)) /\ auth'[c].route = "/login"
              /\ auth'[c].status = 200)
           => \E j \in MatchingAccounts(auth'[c]) :
                 store'[c] = [present |-> TRUE, userId |-> users[j].id,
                              username |-> users[j].username, email |-> users[j].email]
        \* every other answer leaves the session as it was
        /\ ((Answered(c) \/ AnsweredAtOnce(c)) /\ auth'[c].route = "/login"
              /\ auth'[c].status # 200)
           => /\ store' = store
              /\ auth'[c].status \in {400, 401, 500}
        \* missing fields, an unknown user and a wrong password never succeed
        /\ ((Answered(c) \/ AnsweredAtOnce(c)) /\ auth'[c].route = "/login"
              /\ MatchingAccounts(auth'[c]) = {})
           => auth'[c].status # 200
        \* and a session gets a user in no other step of a login
        /\ (store'[c] # store[c] /\ store'[c].present)
           => Answered(c) /\ auth'[c].status = 200

\* C34: POST /api/auth/login writes userId, username and email of the
\* account to the session only when an account with the given username
\* exists and the given password matches its hash, and then answers 200; with
\* a missing field, an unknown user, a wrong password or a failing store
\* or comparison the answer is 400, 401 or 500 and the session is unchanged.
C34_LoginFillsSessionOnMatch == [][C34_Step]_vars

\* one browser logged in as alice; the other did too and then had a second
\* attempt refused, which left its session in place
C34_Witness ==
    \E c, d \in Conn :
        /\ c # d
        /\ auth[d].pc = "responded" /\ auth[d].status = 200
        /\ store[d] = [present |-> TRUE, userId |-> 1, username |-> "alice",
                       email |-> <<"a", "@", "x", ".", "y">>]
        /\ auth[c].pc = "responded" /\ auth[c].status = 401
        /\ auth[c].username.text = "alice" /\ auth[c].password.text = "wrong"
        /\ store[c].present /\ store[c].userId = 1

\* ------------------------------------------------------------------ C35
\* two registrations that got past the field checks, for the same username
\* or the same e-mail address, both answered
SameAccountAnswered(c, d) ==
    /\ c # d
    /\ auth[c].route = "/register" /\ auth[d].route = "/register"
    /\ auth[c].pc = "responded" /\ auth[d].pc = "responded"
    /\ auth[c].status # 400 /\ auth[d].status # 400
    /\ \/ auth[c].username.text = auth[d].username.text
       \/ auth[c].email.text = auth[d].email.text

\* C35: of two registrations for the same username or e-mail address, in
\* whatever order their SELECT and INSERT steps run, one creates the row
\* and is answered 201 and the other is answered 409 'Username or email
\* already exists'; no username and no address is stored twice.
C35_OneCreatedOneConflict ==
    /\ \A j, k \in Indices(users) :
          j # k => users[j].username # users[k].username /\ users[j].email # users[k].email
    /\ \A c, d \in Conn :
          SameAccountAnswered(c, d)
          => \/ /\ auth[c].status = 201 /\ auth[d].status = 409
                /\ auth[d].message = "Username or email already exists"
             \/ /\ auth[d].status = 201 /\ auth[c].status = 409
                /\ auth[c].message = "Username or email already exists"

\* ------------------------------------------------------------------ C36
Returned == boot.pc \in {"returned", "listening", "exit"}

\* attempts and waits at every point of the loop
C36_Attempts ==
    /\ boot.tried <= boot.retries
    /\ boot.pc = "try" => boot.tried < boot.retries /\ boot.slept = boot.delay * boot.tried
    /\ boot.pc = "wait" => boot.tried < boot.retries /\ boot.slept = boot.delay * (boot.tried - 1)
    /\ (Returned /\ boot.result)
       => boot.tried >= 1 /\ boot.slept = boot.delay * (boot.tried - 1)
    /\ (Returned /\ ~boot.result)
       => /\ boot.tried = boot.retries
          /\ boot.slept = boot.delay * (IF boot.retries > 0 THEN boot.retries - 1 ELSE 0)
    /\ boot.pc = "listening" => boot.result
    /\ boot.pc = "exit" => ~boot.result

\* a success returns at once, and nothing is tried or waited for after the return
C36_Step ==
    /\ (boot.pc = "try" /\ boot'.result)
       => boot'.pc = "returned" /\ boot'.tried = boot.tried + 1 /\ boot'.slept = boot.slept
    /\ Returned
       => boot'.tried = boot.tried /\ boot'.slept = boot.slept /\ boot'.result = boot.result

\* C36: testConnection(retries, delay) makes at most `retries` attempts; it
\* returns true at the first attempt that succeeds and tries nothing more,
\* returns false after exactly `retries` failed attempts, waits `delay`
\* between two attempts and never after the last one; the server listens
\* only after it returned true.
C36_BoundedRetry == []C36_Attempts /\ [][C36_Step]_vars

\* every attempt failed, with a wait between them and none at the end
C36_Witness ==
    /\ boot.pc = "exit" /\ boot.retries >= 2 /\ boot.delay > 0
    /\ boot.tried = boot.retries /\ boot.slept = boot.delay * (boot.retries - 1)

\* ------------------------------------------------------------------ C37
\* the page a session belongs on
HomeOf(s) == IF s.present /\ s.userId # 0 THEN "/chat.html" ELSE "/"

\* C37: a page request of a session that is not logged in ends at / and
\* one of a logged-in session at /chat.html: the other path answers with
\* a redirect to it, the page is served there, and no request is
\* redirected twice. Stated for a public directory that holds both pages.
C37_OneHopToHome ==
    public = PublicFiles =>
    \A c \in Conn :
        /\ nav[c].hops <= 1
        /\ nav[c].pc \in {"redirected", "served", "failed"}
           => IF nav[c].path = HomeOf(store[c])
              THEN /\ nav[c].pc = "served"
                   /\ nav[c].file = (IF nav[c].path = "/" THEN "index.html" ELSE "chat.html")
                   /\ nav[c].hops = (IF nav[c].first = nav[c].path THEN 0 ELSE 1)
              ELSE /\ nav[c].pc = "redirected"
                   /\ nav[c].file = HomeOf(store[c])
                   /\ nav[c].hops = 0

====
